---------------------------- MODULE Spec2Model ----------------------------
(***************************************************************************)
(* State-machine model of the Aegis-Hire frontend:                         *)
(*   - Home (frontend/src/app/page.tsx): job description, resume           *)
(*     screening, scheduling / e-mail modal;                               *)
(*   - PreInterviewBriefing and LiveInterviewModerator (demo mode) of the  *)
(*     interview-copilot page.                                             *)
(* Strings are sequences of tokens: a file name is a sequence of           *)
(* characters, a message is a sequence of words.  The empty string is <<>>.*)
(* An async handler is a task record: "idle", or awaiting the response of  *)
(* the one fetch it has in flight; the backend's answer is an input.       *)
(***************************************************************************)
EXTENDS Integers, Sequences, FiniteSets, TLC

\* ------------------------------------------------------------------------
\* Bounds of the model
\* ------------------------------------------------------------------------
MaxFiles == 2

MaxSrv == 2

\* requests or timers of one kind pending at a time
MaxPending == 2

\* ------------------------------------------------------------------------
\* Strings
\* ------------------------------------------------------------------------
ToLowerTok(c) ==
  CASE c = "P" -> "p"
    [] c = "D" -> "d"
    [] c = "F" -> "f"
    [] c = "B" -> "b"
    [] c = "Failed" -> "failed"
    [] c = "FETCH" -> "fetch"
    [] OTHER -> c

ToLowerCase(s) == [i \in 1..Len(s) |-> ToLowerTok(s[i])]

EndsWith(s, suffix) ==
  /\ Len(s) >= Len(suffix)
  /\ SubSeq(s, Len(s) - Len(suffix) + 1, Len(s)) = suffix

DotPdf == <<".", "p", "d", "f">>

\* variant: the dot of the extension is not looked at
IsPdfNameNoDot(name) == EndsWith(ToLowerCase(name), <<"p", "d", "f">>)

\* file.name.toLowerCase().endsWith(".pdf")
IsPdfName(name) == EndsWith(ToLowerCase(name), DotPdf)

\* /failed to fetch/i.test(message)
FailedToFetchRe(message) ==
  \E i \in 1..Len(message) :
    /\ i + 2 <= Len(message)
    /\ SubSeq(ToLowerCase(message), i, i + 2) = <<"failed", "to", "fetch">>

\* truthiness of a string
Truthy(s) == s # <<>>

Or(a, b) == IF Truthy(a) THEN a ELSE b

\* (the source sets the command in backquotes, left out of the tokens here)
UnreachableText ==
  <<": Unable to reach the backend service. Ensure the FastAPI server is running at ",
    "http://127.0.0.1:8000", " (for example, run ", "uvicorn main:app --reload",
    " from the backend folder).">>

\* an Error object: name and message
MkError(message) == [name |-> "Error", message |-> message]

\* what fetch rejects with when the backend cannot be reached
NetworkError == [name |-> "TypeError", message |-> <<"Failed", "to", "fetch">>]

HttpStatusError(status) == MkError(<<"HTTP error! status: ", status>>)

buildErrorMessage(error, prefix) ==
  IF FailedToFetchRe(error.message) \/ error.name = "TypeError"
  THEN <<prefix>> \o UnreachableText
  ELSE <<prefix, ": ">> \o error.message

\* ------------------------------------------------------------------------
\* Inputs: files the user can pick, answers the backend can give
\* ------------------------------------------------------------------------
NameA == <<"a", ".", "p", "d", "f">>

NameB == <<"B", ".", "P", "D", "F">>

\* not a PDF, although it ends in "pdf"
NameNoDot == <<"c", "v", "p", "d", "f">>

FileNames == {NameA, NameB, NameNoDot}

Files == [name : FileNames]

\* one pick of the file dialog: one file, or two
Selections == [1..1 -> Files] \cup [1..2 -> Files]

Statuses == {"400", "500"}

\* texts a backend error body can carry in detail / error / message
Details == {<<>>, <<"quota", "exceeded">>, <<"upstream", "Failed", "to", "FETCH", "model">>}

\* what the backend extracts from a file: a resume with text and a name, or
\* (from a scanned PDF) nothing
ParsedOf(name) ==
  IF name = NameA
  THEN [raw_text |-> <<"python", "aws">>, candidate_name |-> <<"Ann">>]
  ELSE [raw_text |-> <<>>, candidate_name |-> <<>>]

ScreeningLists == {<<>>, <<[candidate |-> <<"Ann">>, rank |-> 1]>>}

\* a Response: network failure, or a status with a JSON body
\*   ok      - response.ok
\*   status  - response.status
\*   json    - FALSE when the body is not JSON (response.json() rejects)
\*   detail, error, message - text fields of the JSON body (<<>> when absent)
\*   success - the body's success flag
HttpError(status, detail, err) ==
  [net |-> FALSE, ok |-> FALSE, status |-> status, json |-> TRUE,
   detail |-> detail, error |-> err, message |-> <<>>, success |-> FALSE]

\* a non-OK answer whose body is not JSON (a proxy's HTML error page)
HtmlError ==
  [net |-> FALSE, ok |-> FALSE, status |-> "500", json |-> FALSE,
   detail |-> <<>>, error |-> <<>>, message |-> <<>>, success |-> FALSE]

ErrorResponses ==
  {HttpError(s, d, e) :
     s \in Statuses, d \in Details, e \in {<<>>, <<"bad", "request">>}}
  \cup {HtmlError}

NetworkFailure ==
  [net |-> TRUE, ok |-> FALSE, status |-> "0", json |-> FALSE,
   detail |-> <<>>, error |-> <<>>, message |-> <<>>, success |-> FALSE]

\* a 200 answer whose JSON body carries the error text e (<<>>: none)
OkResponse(e) ==
  [net |-> FALSE, ok |-> TRUE, status |-> "200", json |-> TRUE,
   detail |-> <<>>, error |-> e, message |-> <<>>, success |-> TRUE]

\* a 200 answer whose JSON body says success: false
Refusal(message, err) ==
  [net |-> FALSE, ok |-> TRUE, status |-> "200", json |-> TRUE,
   detail |-> <<>>, error |-> err, message |-> message, success |-> FALSE]

JsonSyntaxError == MkError(<<"Unexpected", "token">>)

\* the failures the screening requests are answered with
ScreeningFailures ==
  {NetworkFailure, HttpError("500", <<"quota", "exceeded">>, <<>>)}

\* ------------------------------------------------------------------------
\* State
\* ------------------------------------------------------------------------
VARIABLES
  \* Home: job description tab
  jobDescription, jobLoading, jobTask,
  \* Home: screening tab
  resumeFiles, parsedResumes, screeningResults,
  screeningLoading, parsing, parseTask, screenTask,
  \* Home: scheduling tab and e-mail confirmation modal
  schedulingLoading, schedulingSuggestions, scheduledInterview, emailContent,
  isEmailModalOpen, intervieweeEmail, emailSending, successMessage,
  schedTask, bookTasks, emailTask, closeTimers,
  \* Home: banner shared by all tabs
  error,
  \* PreInterviewBriefing
  candidateName, candidateResume, isUploading, isGenerating, interviewGuide,
  pibError, uploadTask, guideTask,
  \* LiveInterviewModerator: state, refs, timers of the browser, history
  showModal, isInterviewing, isRecording, transcript, nudges, limError,
  ws, simulationTimer, transcriptIndex, nudgeTimers,
  clock, wsSent, received, recNo,
  \* the browser's sockets that were constructed and have neither failed
  \* nor been closed, and its intervals that were set and not cleared
  sockets, intervals,
  \* the URL the session's socket was constructed with, and the job
  \* description handleStartSession read
  wsUrl, sessionContext,
  \* PostInterviewAnalysis
  sessionId, analysisGenerating, analysis, analysisError, analysisTask,
  \* Home: onboarding tab; lastPlan is history: the plan of the latest
  \* generation that was answered with one
  onboardingCandidateName, generatedOnboardingPlan, onboardingEmail,
  onboardingLoading, onboardingStatus, onboardingTask, lastPlan

jobVars == <<jobDescription, jobLoading, jobTask>>

screeningVars == <<resumeFiles, parsedResumes,
                   screeningResults, screeningLoading, parsing, parseTask,
                   screenTask>>

schedVars == <<schedulingLoading, schedulingSuggestions, scheduledInterview,
               emailContent, isEmailModalOpen, intervieweeEmail, emailSending,
               successMessage, schedTask, bookTasks, emailTask, closeTimers>>

pibVars == <<candidateName, candidateResume, isUploading, isGenerating,
             interviewGuide, pibError, uploadTask, guideTask>>

limVars == <<showModal, isInterviewing, isRecording, transcript, nudges,
             limError, ws, simulationTimer, transcriptIndex, nudgeTimers,
             clock, wsSent, received, recNo, sockets, intervals, wsUrl,
             sessionContext>>

piaVars == <<sessionId, analysisGenerating, analysis, analysisError,
             analysisTask>>

onbVars == <<onboardingCandidateName, generatedOnboardingPlan,
             onboardingEmail, onboardingLoading, onboardingStatus,
             onboardingTask, lastPlan>>

vars == <<jobVars, screeningVars, schedVars, error, pibVars, limVars, piaVars,
          onbVars>>

\* what an action of one component leaves alone
notScreening == <<jobVars, schedVars, pibVars, limVars, piaVars,
  onbVars>>

notJob == <<screeningVars, schedVars, pibVars, limVars, piaVars,
  onbVars>>

notSched == <<jobVars, screeningVars, pibVars, limVars, piaVars,
  onbVars>>

notPib == <<jobVars, screeningVars, schedVars, error, limVars, piaVars,
  onbVars>>

notLim == <<jobVars, screeningVars, schedVars, error, pibVars, piaVars,
  onbVars>>

notPia == <<jobVars, screeningVars, schedVars, error, pibVars, limVars,
  onbVars>>

notOnb == <<jobVars, screeningVars, schedVars, error, pibVars, limVars,
            piaVars>>

\* ------------------------------------------------------------------------
\* Home: resume screening
\* ------------------------------------------------------------------------
EmptyMap == <<>>

\* { ...a, ...b }
Spread(a, b) ==
  [n \in (DOMAIN a) \cup (DOMAIN b) |-> IF n \in DOMAIN b THEN b[n] ELSE a[n]]

\* delete map[key]
DeleteKey(map, key) == [n \in (DOMAIN map) \ {key} |-> map[n]]

\* reqs, oks: history of the running invocation (the requests it has sent,
\* the number of them that were answered without a failure)
IdleTask ==
  [pc |-> "idle", files |-> <<>>, known |-> EmptyMap, i |-> 0,
   acc |-> EmptyMap, reqs |-> <<>>, oks |-> 0]

IdleScreenTask ==
  [pc |-> "idle", files |-> <<>>, known |-> EmptyMap, jd |-> <<>>, i |-> 0,
   acc |-> EmptyMap, reqs |-> <<>>, oks |-> 0]

ParseRequest(files, i) ==
  [ep |-> "/api/parse-resume", idx |-> i, body |-> <<files[i].name>>]

\* the request did not succeed: no answer, a non-OK status, or an error payload
Failed(resp) ==
  resp.net \/ ~resp.ok \/ ~resp.json \/ Truthy(resp.error) \/ ~resp.success

\* parseResumeFile up to its fetch: the Error it throws before sending, if any
parseResumeFilePre(file) ==
  IF ~IsPdfName(file.name)
  THEN [throws |-> TRUE, err |-> MkError(<<"Only PDF files are supported.">>)]
  ELSE [throws |-> FALSE, err |-> MkError(<<>>)]

\* parseResumeFile after its fetch settled with resp: the Error it throws, if any
parseResumeFilePost(resp) ==
  IF resp.net THEN [throws |-> TRUE, err |-> NetworkError]
  ELSE IF ~resp.ok THEN [throws |-> TRUE, err |-> HttpStatusError(resp.status)]
  ELSE IF ~resp.json THEN [throws |-> TRUE, err |-> JsonSyntaxError]
  ELSE IF Truthy(resp.error) THEN [throws |-> TRUE, err |-> MkError(resp.error)]
  ELSE [throws |-> FALSE, err |-> MkError(<<>>)]

\* the for-loop of handleParseResumes from index i on, up to the next file
\* that has to be fetched: files already in the closure's parsedResumes are
\* copied into parsedDataByFile without a request
RECURSIVE ParseLoop(_, _, _, _)
ParseLoop(files, known, i, acc) ==
  IF i > Len(files) THEN [i |-> i, acc |-> acc]
  ELSE IF files[i].name \in DOMAIN known
       THEN ParseLoop(files, known, i + 1,
                      Spread(acc, [n \in {files[i].name} |-> known[n]]))
       ELSE [i |-> i, acc |-> acc]

\* the for-loop of handleScreenApplicants: files in the closure's
\* parsedResumes are skipped
RECURSIVE ScreenLoop(_, _, _)
ScreenLoop(files, known, i) ==
  IF i > Len(files) THEN i
  ELSE IF files[i].name \in DOMAIN known THEN ScreenLoop(files, known, i + 1)
  ELSE i

\* the banner and the screening tab's lists after handleResumeSelection
SelectionOutcome(newFiles) ==
  LET isDuplicate(f) == \E k \in 1..Len(resumeFiles) : resumeFiles[k].name = f.name
      isUnique(f) == ~isDuplicate(f)
      duplicateFiles == SelectSeq(newFiles, isDuplicate)
      uniqueNewFiles == SelectSeq(newFiles, isUnique)
      rejected(message) ==
        [error |-> message, resumeFiles |-> resumeFiles,
         parsedResumes |-> parsedResumes,
         screeningResults |-> screeningResults]
  IN
  IF \E k \in 1..Len(newFiles) : ~IsPdfName(newFiles[k].name)
  THEN rejected(<<"Only PDF files are supported.">>)
  ELSE IF Len(duplicateFiles) > 0 /\ Len(uniqueNewFiles) = 0
  THEN rejected(<<"Duplicate files detected: ">>
                \o [k \in 1..Len(duplicateFiles) |-> duplicateFiles[k].name]
                \o <<". These files were not added again.">>)
  ELSE [error |-> <<>>, resumeFiles |-> resumeFiles \o uniqueNewFiles,
        parsedResumes |-> parsedResumes, screeningResults |-> <<>>]

\* onChange of the screening tab's file input
handleResumeSelection(newFiles) ==
  /\ error' = SelectionOutcome(newFiles).error
  /\ resumeFiles' = SelectionOutcome(newFiles).resumeFiles
  /\ parsedResumes' = SelectionOutcome(newFiles).parsedResumes
  /\ screeningResults' = SelectionOutcome(newFiles).screeningResults
  /\ UNCHANGED <<screeningLoading, parsing, parseTask, screenTask,
                 notScreening>>

ResumeSelection ==
  \E newFiles \in Selections :
    /\ Len(resumeFiles) + Len(newFiles) <= MaxFiles
    /\ handleResumeSelection(newFiles)

\* variant: the results of the last screening stay on display
handleRemoveResumeKeepResults(fileName) ==
  LET keep(f) == f.name # fileName IN
  /\ resumeFiles' = SelectSeq(resumeFiles, keep)
  /\ parsedResumes' = DeleteKey(parsedResumes, fileName)
  /\ UNCHANGED <<notScreening, screeningLoading, parsing,
                 parseTask, screenTask, error, screeningResults>>

handleRemoveResume(fileName) ==
  LET keep(f) == f.name # fileName IN
  /\ resumeFiles' = SelectSeq(resumeFiles, keep)
  /\ parsedResumes' = DeleteKey(parsedResumes, fileName)
  /\ screeningResults' = <<>>
  /\ UNCHANGED <<notScreening, screeningLoading, parsing,
                 parseTask, screenTask, error>>

RemoveResume ==
  \E k \in 1..Len(resumeFiles) : handleRemoveResume(resumeFiles[k].name)

handleClearAllResumes ==
  /\ Len(resumeFiles) > 0
  /\ resumeFiles' = <<>>
  /\ parsedResumes' = EmptyMap
  /\ screeningResults' = <<>>
  /\ UNCHANGED <<notScreening, screeningLoading, parsing,
                 parseTask, screenTask, error>>

\* end of handleParseResumes' try block
ParseCommit(acc) ==
  /\ parsedResumes' = Spread(parsedResumes, acc)
  /\ screeningResults' = <<>>
  /\ parsing' = FALSE
  /\ parseTask' = IdleTask

\* variant: what the batch parsed before the failure is kept
ParseCatchKeepPartial(err) ==
  /\ error' = buildErrorMessage(err, "Failed to parse resume")
  /\ parsing' = FALSE
  /\ parseTask' = IdleTask
  /\ parsedResumes' = Spread(parsedResumes, parseTask.acc)
  /\ UNCHANGED screeningResults

\* handleParseResumes' catch and finally blocks
ParseCatch(err) ==
  /\ error' = buildErrorMessage(err, "Failed to parse resume")
  /\ parsing' = FALSE
  /\ parseTask' = IdleTask
  /\ UNCHANGED <<parsedResumes, screeningResults>>

\* handleParseResumes running from file i of its closure's resumeFiles until
\* it awaits a fetch or returns
ParseRun(files, known, i0, acc0, reqs, oks, banner) ==
  LET r == ParseLoop(files, known, i0, acc0) IN
  IF r.i > Len(files)
  THEN error' = banner /\ ParseCommit(r.acc)
  ELSE IF parseResumeFilePre(files[r.i]).throws
  THEN ParseCatch(parseResumeFilePre(files[r.i]).err)
  ELSE /\ parseTask' = [pc |-> "await", files |-> files, known |-> known,
                        i |-> r.i, acc |-> r.acc,
                        reqs |-> Append(reqs, ParseRequest(files, r.i)),
                        oks |-> oks]
       /\ parsing' = TRUE
       /\ error' = banner
       /\ UNCHANGED <<parsedResumes, screeningResults>>

\* click on "Parse resumes" (disabled while parsing or without files)
handleParseResumes ==
  /\ ~parsing /\ Len(resumeFiles) > 0
  /\ parseTask.pc = "idle"
  /\ ParseRun(resumeFiles, parsedResumes, 1, EmptyMap, <<>>, 0, <<>>)
  /\ UNCHANGED <<notScreening, resumeFiles,
                 screeningLoading, screenTask>>

\* parseResumeFile returned parsed: the loop stores it and goes on
ParseContinue(resp, parsed) ==
  ParseRun(parseTask.files, parseTask.known, parseTask.i + 1,
           Spread(parseTask.acc,
                  [n \in {parseTask.files[parseTask.i].name} |-> parsed]),
           parseTask.reqs, parseTask.oks + (IF Failed(resp) THEN 0 ELSE 1),
           error)

\* variant: a failed request is sent again
ParseSettleRetry(resp, parsed) ==
  /\ parseTask.pc = "await"
  /\ IF parseResumeFilePost(resp).throws
     THEN /\ parseTask' =
               [parseTask EXCEPT
                  !.reqs = Append(@, ParseRequest(parseTask.files, parseTask.i))]
          /\ UNCHANGED <<parsedResumes, screeningResults, parsing, error>>
     ELSE ParseContinue(resp, parsed)
  /\ UNCHANGED <<notScreening, resumeFiles,
                 screeningLoading, screenTask>>

\* the fetch of parseResumeFile settles with resp
ParseSettle(resp, parsed) ==
  /\ parseTask.pc = "await"
  /\ IF parseResumeFilePost(resp).throws
     THEN ParseCatch(parseResumeFilePost(resp).err)
     ELSE ParseContinue(resp, parsed)
  /\ UNCHANGED <<notScreening, resumeFiles,
                 screeningLoading, screenTask>>

ParseResponse ==
  /\ parseTask.pc = "await"
  /\ \E resp \in {OkResponse(<<>>)} \cup ScreeningFailures :
       ParseSettle(resp, ParsedOf(parseTask.files[parseTask.i].name))

ScreenRequest(files, resolved, jd) ==
  LET hasText(f) == f.name \in DOMAIN resolved /\ Truthy(resolved[f.name].raw_text)
      hasName(f) == f.name \in DOMAIN resolved
                    /\ Truthy(resolved[f.name].candidate_name)
      withText == SelectSeq(files, hasText)
      withName == SelectSeq(files, hasName)
  IN [ep |-> "/api/screen-applicants", idx |-> 0,
      body |-> <<jd,
                 [k \in 1..Len(withText) |-> resolved[withText[k].name].raw_text],
                 [k \in 1..Len(withName) |-> resolved[withName[k].name].candidate_name]>>]

ScreenCatch(err) ==
  /\ error' = buildErrorMessage(err, "Failed to screen applicants")
  /\ screeningLoading' = FALSE
  /\ screenTask' = IdleScreenTask
  /\ UNCHANGED parsedResumes

\* handleScreenApplicants running from file i of its closure's resumeFiles
\* until it awaits a fetch
ScreenRun(files, known, jd, i0, acc, reqs, oks, banner) ==
  LET i == ScreenLoop(files, known, i0) IN
  IF i <= Len(files)
  THEN IF parseResumeFilePre(files[i]).throws
       THEN ScreenCatch(parseResumeFilePre(files[i]).err)
       ELSE /\ screenTask' = [pc |-> "parse", files |-> files, known |-> known,
                              jd |-> jd, i |-> i, acc |-> acc,
                              reqs |-> Append(reqs, ParseRequest(files, i)),
                              oks |-> oks]
            /\ screeningLoading' = TRUE
            /\ error' = banner
            /\ UNCHANGED parsedResumes
  ELSE /\ parsedResumes' = IF DOMAIN acc # {} THEN Spread(parsedResumes, acc)
                           ELSE parsedResumes
       /\ screenTask' = [pc |-> "screen", files |-> files, known |-> known,
                         jd |-> jd, i |-> i, acc |-> acc,
                         reqs |-> Append(reqs,
                                   ScreenRequest(files, Spread(known, acc), jd)),
                         oks |-> oks]
       /\ screeningLoading' = TRUE
       /\ error' = banner

\* click on "Screen applicants" (disabled while screening or without files)
handleScreenApplicants(screeningJobDescription) ==
  /\ ~screeningLoading /\ Len(resumeFiles) > 0
  /\ screenTask.pc = "idle"
  /\ IF ~Truthy(screeningJobDescription)
     THEN /\ error' = <<"Please provide a job description.">>
          /\ UNCHANGED <<screeningResults, screeningLoading, screenTask,
                         parsedResumes>>
     ELSE /\ screeningResults' = <<>>
          /\ ScreenRun(resumeFiles, parsedResumes, screeningJobDescription, 1,
                       EmptyMap, <<>>, 0, <<>>)
  /\ UNCHANGED <<notScreening, resumeFiles, parsing,
                 parseTask>>

\* the job description is a controlled textarea the handlers only read: its
\* value at the click is an input
ScreenApplicants ==
  \E text \in {<<>>, <<"Senior", "Engineer">>} : handleScreenApplicants(text)

ScreenParseSettle(resp, parsed) ==
  /\ screenTask.pc = "parse"
  /\ IF parseResumeFilePost(resp).throws
     THEN ScreenCatch(parseResumeFilePost(resp).err)
     ELSE ScreenRun(screenTask.files, screenTask.known, screenTask.jd,
                    screenTask.i + 1,
                    Spread(screenTask.acc,
                           [n \in {screenTask.files[screenTask.i].name} |-> parsed]),
                    screenTask.reqs,
                    screenTask.oks + (IF Failed(resp) THEN 0 ELSE 1), error)
  /\ UNCHANGED <<notScreening, resumeFiles,
                 screeningResults, parsing, parseTask>>

ScreenParseResponse ==
  /\ screenTask.pc = "parse"
  /\ \E resp \in {OkResponse(<<>>)} \cup ScreeningFailures :
       ScreenParseSettle(resp, ParsedOf(screenTask.files[screenTask.i].name))

ScreenSettle(resp, results) ==
  /\ screenTask.pc = "screen"
  /\ IF parseResumeFilePost(resp).throws
     THEN /\ ScreenCatch(parseResumeFilePost(resp).err)
          /\ UNCHANGED screeningResults
     ELSE /\ screeningResults' = results
          /\ screeningLoading' = FALSE
          /\ screenTask' = IdleScreenTask
          /\ UNCHANGED <<parsedResumes, error>>
  /\ UNCHANGED <<notScreening, resumeFiles, parsing,
                 parseTask>>

ScreenResponse ==
  \/ \E results \in ScreeningLists : ScreenSettle(OkResponse(<<>>), results)
  \/ \E resp \in ScreeningFailures : ScreenSettle(resp, <<>>)

\* ------------------------------------------------------------------------
\* Home: job description
\* ------------------------------------------------------------------------
Prompts == {<<>>, <<"backend", "developer">>}

GeneratedDescriptions == {<<"We", "are", "hiring">>}

IdleJobTask == [pc |-> "idle", reqs |-> <<>>, oks |-> 0]

\* click on "Generate" (disabled while jobLoading)
handleGenerateDescription(jobPrompt) ==
  /\ ~jobLoading
  /\ jobTask.pc = "idle"
  /\ IF ~Truthy(jobPrompt)
     THEN /\ error' = <<"Please enter a prompt for the job description.">>
          /\ UNCHANGED <<jobLoading, jobDescription, jobTask>>
     ELSE /\ jobLoading' = TRUE
          /\ error' = <<>>
          /\ jobDescription' = <<>>
          /\ jobTask' = [pc |-> "await",
                         reqs |-> <<[ep |-> "/api/generate-job-description",
                                     idx |-> 0, body |-> <<jobPrompt>>]>>,
                         oks |-> 0]
  /\ UNCHANGED notJob

\* the prompt is a controlled textarea the handler only reads
GenerateDescription == \E text \in Prompts : handleGenerateDescription(text)

\* variant: the flag is cleared at the end of the try block, not in finally
JobSettleNoFinally(resp, text) ==
  /\ jobTask.pc = "await"
  /\ IF resp.net \/ ~resp.ok \/ ~resp.json \/ Truthy(resp.error)
     THEN /\ error' = buildErrorMessage(
                        IF resp.net THEN NetworkError
                        ELSE IF ~resp.ok THEN HttpStatusError(resp.status)
                        ELSE IF ~resp.json THEN JsonSyntaxError
                        ELSE MkError(resp.error),
                        "Failed to generate job description")
          /\ UNCHANGED <<jobDescription, jobLoading>>
     ELSE /\ jobDescription' = text
          /\ jobLoading' = FALSE
          /\ UNCHANGED error
  /\ jobTask' = IdleJobTask
  /\ UNCHANGED notJob

JobSettle(resp, text) ==
  /\ jobTask.pc = "await"
  /\ IF resp.net
     THEN /\ error' = buildErrorMessage(NetworkError,
                                        "Failed to generate job description")
          /\ UNCHANGED jobDescription
     ELSE IF ~resp.ok
     THEN /\ error' = buildErrorMessage(HttpStatusError(resp.status),
                                        "Failed to generate job description")
          /\ UNCHANGED jobDescription
     ELSE IF ~resp.json
     THEN /\ error' = buildErrorMessage(JsonSyntaxError,
                                        "Failed to generate job description")
          /\ UNCHANGED jobDescription
     ELSE IF Truthy(resp.error)
     THEN /\ error' = buildErrorMessage(MkError(resp.error),
                                        "Failed to generate job description")
          /\ UNCHANGED jobDescription
     ELSE /\ jobDescription' = text
          /\ UNCHANGED error
  /\ jobLoading' = FALSE
  /\ jobTask' = IdleJobTask
  /\ UNCHANGED notJob

JobResponse ==
  \/ \E text \in GeneratedDescriptions : JobSettle(OkResponse(<<>>), text)
  \/ \E resp \in ErrorResponses \cup {NetworkFailure} \cup
                 {OkResponse(e) : e \in Details \ {<<>>}} :
       JobSettle(resp, <<>>)

\* ------------------------------------------------------------------------
\* Home: scheduling tab and e-mail confirmation modal
\* ------------------------------------------------------------------------
CandidateNames == {<<"Ann">>}

\* the comma-separated participants field, as typed
ParticipantFields == {<<"a@x", ",", " ", "b@x", ",">>}

SuggestedSlots == {<<"slot1">>}

Emails == {<<>>, <<"c@x">>}

EmailBodies == {<<"Your", "interview", "is", "booked">>}

\* s.split(","): the pieces between the commas
RECURSIVE Split(_, _)
Split(s, piece) ==
  IF s = <<>> THEN <<piece>>
  ELSE IF Head(s) = "," THEN <<piece>> \o Split(Tail(s), <<>>)
  ELSE Split(Tail(s), Append(piece, Head(s)))

RECURSIVE TrimStart(_)
TrimStart(s) ==
  IF s # <<>> /\ Head(s) = " " THEN TrimStart(Tail(s)) ELSE s

RECURSIVE TrimEnd(_)
TrimEnd(s) ==
  IF s # <<>> /\ s[Len(s)] = " " THEN TrimEnd(SubSeq(s, 1, Len(s) - 1)) ELSE s

Trim(s) == TrimEnd(TrimStart(s))

\* field.split(",").map((email) => email.trim()).filter((email) => email)
ParticipantEmails(field) ==
  LET pieces == Split(field, <<>>)
      trimmed == [k \in 1..Len(pieces) |-> Trim(pieces[k])]
  IN SelectSeq(trimmed, Truthy)

IdleSchedTask == [pc |-> "idle", prefix |-> "", reqs |-> <<>>]

IdleEmailTask == [pc |-> "idle", to |-> <<>>, reqs |-> <<>>]

SchedulingRequest(ep, name, field) ==
  [ep |-> ep, idx |-> 0,
   body |-> <<name, "45", ParticipantEmails(field)>>]

\* the guards and the request shared by the two scheduling buttons
SchedulingStart(ep, prefix, name, field) ==
  /\ schedTask.pc = "idle"
  /\ IF ~Truthy(name)
     THEN /\ error' = <<"Please enter the candidate name.">>
          /\ UNCHANGED <<schedulingLoading, schedulingSuggestions,
                         scheduledInterview, schedTask>>
     ELSE IF ~Truthy(field)
     THEN /\ error' = <<"Please enter participant email addresses.">>
          /\ UNCHANGED <<schedulingLoading, schedulingSuggestions,
                         scheduledInterview, schedTask>>
     ELSE /\ schedulingLoading' = TRUE
          /\ error' = <<>>
          /\ schedulingSuggestions' = <<>>
          /\ scheduledInterview' = "null"
          /\ schedTask' = [pc |-> "await", prefix |-> prefix,
                           reqs |-> <<SchedulingRequest(ep, name, field)>>]
  /\ UNCHANGED <<emailContent, isEmailModalOpen, intervieweeEmail,
                 emailSending, successMessage, bookTasks, emailTask,
                 closeTimers, notSched>>

handleGenerateSchedulingSuggestions(name, field) ==
  SchedulingStart("/api/scheduling/generate-suggestions",
                  "Failed to generate scheduling suggestions", name, field)

handleScheduleInterview(name, field) ==
  SchedulingStart("/api/scheduling/schedule-interview",
                  "Failed to schedule interview", name, field)

\* both buttons are disabled while schedulingLoading or a field is empty
GenerateSchedulingSuggestions ==
  \E name \in CandidateNames, field \in ParticipantFields :
    /\ ~schedulingLoading
    /\ handleGenerateSchedulingSuggestions(name, field)

ScheduleInterview ==
  \E name \in CandidateNames, field \in ParticipantFields :
    /\ ~schedulingLoading
    /\ handleScheduleInterview(name, field)

\* what a Home handler throws for the answer resp, given the text field its
\* success check reads; "none" when it throws nothing
HomeThrown(resp, refusalText) ==
  IF resp.net THEN NetworkError
  ELSE IF ~resp.ok THEN HttpStatusError(resp.status)
  ELSE IF ~resp.json THEN JsonSyntaxError
  ELSE IF ~resp.success THEN MkError(refusalText)
  ELSE [name |-> "none", message |-> <<>>]

SchedSettle(resp, slots, booked) ==
  /\ schedTask.pc = "await"
  /\ IF HomeThrown(resp, resp.message).name # "none"
     THEN /\ error' = buildErrorMessage(HomeThrown(resp, resp.message),
                                        schedTask.prefix)
          /\ UNCHANGED <<schedulingSuggestions, scheduledInterview>>
     ELSE /\ UNCHANGED error
          /\ IF schedTask.prefix = "Failed to schedule interview"
             THEN /\ scheduledInterview' = booked
                  /\ UNCHANGED schedulingSuggestions
             ELSE /\ schedulingSuggestions' = slots
                  /\ UNCHANGED scheduledInterview
  /\ schedulingLoading' = FALSE
  /\ schedTask' = IdleSchedTask
  /\ UNCHANGED <<emailContent, isEmailModalOpen, intervieweeEmail,
                 emailSending, successMessage, bookTasks, emailTask,
                 closeTimers, notSched>>

\* the failures the scheduling and booking requests are answered with
SchedulingFailures ==
  {NetworkFailure, HttpError("500", <<"quota", "exceeded">>, <<>>),
   Refusal(<<"no", "slot", "free">>, <<"slot", "taken">>)}

SchedResponse ==
  \/ \E slots \in SuggestedSlots, booked \in {"null", "slot1"} :
       SchedSettle(OkResponse(<<>>), slots, booked)
  \/ \E resp \in SchedulingFailures : SchedSettle(resp, <<>>, "null")

\* "Book" on a suggested slot: no loading flag, so clicks can overlap;
\* bookTasks holds the requests in flight
handleBookSpecificSlot(slot, name, field) ==
  /\ IF ~Truthy(name)
     THEN /\ error' = <<"Please enter the candidate name.">>
          /\ UNCHANGED bookTasks
     ELSE /\ bookTasks' =
               Append(bookTasks,
                      [ep |-> "/api/scheduling/book-specific-slot", idx |-> 0,
                       body |-> <<slot, name, ParticipantEmails(field)>>])
          /\ UNCHANGED error
  /\ UNCHANGED <<schedulingLoading, schedulingSuggestions, scheduledInterview,
                 emailContent, isEmailModalOpen, intervieweeEmail,
                 emailSending, successMessage, schedTask, emailTask,
                 closeTimers, notSched>>

BookSpecificSlot ==
  \E k \in 1..Len(schedulingSuggestions),
     name \in CandidateNames \cup {<<>>}, field \in ParticipantFields :
    /\ Len(bookTasks) < MaxPending
    /\ handleBookSpecificSlot(schedulingSuggestions[k], name, field)

\* variant: a failed booking withdraws the suggestions
BookSettleDropsSuggestions(resp, slot, content) ==
  /\ bookTasks # <<>>
  /\ bookTasks' = Tail(bookTasks)
  /\ IF HomeThrown(resp, resp.error).name # "none"
     THEN /\ error' = buildErrorMessage(HomeThrown(resp, resp.error),
                                        "Failed to book interview slot")
          /\ schedulingSuggestions' = <<>>
          /\ UNCHANGED <<scheduledInterview, emailContent, isEmailModalOpen>>
     ELSE /\ scheduledInterview' = slot
          /\ schedulingSuggestions' = <<>>
          /\ emailContent' = content
          /\ isEmailModalOpen' = TRUE
          /\ UNCHANGED error
  /\ UNCHANGED <<schedulingLoading, intervieweeEmail, emailSending,
                 successMessage, schedTask, emailTask, closeTimers, notSched>>

\* the fetch of the oldest booking in flight settles with resp; slot and
\* content are data.slot and data.email_content
BookSettle(resp, slot, content) ==
  /\ bookTasks # <<>>
  /\ bookTasks' = Tail(bookTasks)
  /\ IF HomeThrown(resp, resp.error).name # "none"
     THEN /\ error' = buildErrorMessage(HomeThrown(resp, resp.error),
                                        "Failed to book interview slot")
          /\ UNCHANGED <<scheduledInterview, schedulingSuggestions,
                         emailContent, isEmailModalOpen>>
     ELSE /\ scheduledInterview' = slot
          /\ schedulingSuggestions' = <<>>
          /\ emailContent' = content
          /\ isEmailModalOpen' = TRUE
          /\ UNCHANGED error
  /\ UNCHANGED <<schedulingLoading, intervieweeEmail, emailSending,
                 successMessage, schedTask, emailTask, closeTimers, notSched>>

BookResponse ==
  \/ \E slot \in {"slot1"}, content \in EmailBodies :
       BookSettle(OkResponse(<<>>), slot, content)
  \/ \E resp \in SchedulingFailures : BookSettle(resp, "null", <<>>)

\* the modal's address field (disabled while emailSending)
SetIntervieweeEmail ==
  \E value \in Emails :
    /\ isEmailModalOpen
    /\ ~emailSending
    /\ intervieweeEmail' = value
    /\ UNCHANGED <<schedulingLoading, schedulingSuggestions,
                   scheduledInterview, emailContent, isEmailModalOpen,
                   emailSending, successMessage, schedTask, bookTasks,
                   emailTask, closeTimers, error, notSched>>

\* variant: the address is not looked at
handleSendEmailUnchecked ==
  /\ isEmailModalOpen
  /\ ~emailSending
  /\ closeTimers < MaxPending
  /\ emailSending' = TRUE
  /\ error' = <<>>
  /\ successMessage' = <<>>
  /\ emailTask' =
       [pc |-> "await", to |-> intervieweeEmail,
        reqs |-> <<[ep |-> "/api/send-email", idx |-> 0,
                    body |-> <<intervieweeEmail, emailContent>>]>>]
  /\ UNCHANGED <<schedulingLoading, schedulingSuggestions, scheduledInterview,
                 emailContent, isEmailModalOpen, intervieweeEmail, schedTask,
                 bookTasks, closeTimers, notSched>>

\* "Send Email" in the modal (disabled while emailSending)
handleSendEmail ==
  /\ isEmailModalOpen
  /\ ~emailSending
  /\ closeTimers < MaxPending
  /\ IF ~Truthy(intervieweeEmail)
     THEN /\ error' = <<"Please enter the interviewee's email address.">>
          /\ UNCHANGED <<emailSending, successMessage, emailTask>>
     ELSE /\ emailSending' = TRUE
          /\ error' = <<>>
          /\ successMessage' = <<>>
          /\ emailTask' =
               [pc |-> "await", to |-> intervieweeEmail,
                reqs |-> <<[ep |-> "/api/send-email", idx |-> 0,
                            body |-> <<intervieweeEmail, emailContent>>]>>]
  /\ UNCHANGED <<schedulingLoading, schedulingSuggestions, scheduledInterview,
                 emailContent, isEmailModalOpen, intervieweeEmail, schedTask,
                 bookTasks, closeTimers, notSched>>

\* what handleSendEmail throws for the answer resp
EmailThrown(resp) ==
  IF resp.net THEN NetworkError
  ELSE IF ~resp.ok
  THEN MkError(Or(IF resp.json THEN resp.detail ELSE <<>>,
                  <<"HTTP error! status: ", resp.status>>))
  ELSE IF ~resp.json THEN JsonSyntaxError
  ELSE IF ~resp.success
  THEN MkError(Or(resp.message, <<"Failed to send email">>))
  ELSE [name |-> "none", message |-> <<>>]

EmailSettle(resp) ==
  /\ emailTask.pc = "await"
  /\ IF EmailThrown(resp).name # "none"
     THEN /\ error' = buildErrorMessage(EmailThrown(resp),
                                        "Failed to send email")
          /\ UNCHANGED <<successMessage, closeTimers>>
     ELSE /\ successMessage' =
               <<"Email sent successfully to ">> \o emailTask.to \o <<"!">>
          /\ closeTimers' = closeTimers + 1
          /\ UNCHANGED error
  /\ emailSending' = FALSE
  /\ emailTask' = IdleEmailTask
  /\ UNCHANGED <<schedulingLoading, schedulingSuggestions, scheduledInterview,
                 emailContent, isEmailModalOpen, intervieweeEmail, schedTask,
                 bookTasks, notSched>>

EmailFailures ==
  {NetworkFailure, HtmlError, Refusal(<<>>, <<>>),
   Refusal(<<"mailbox", "full">>, <<>>)}
  \cup {HttpError("500", d, e) : d \in Details, e \in {<<>>, <<"bad", "request">>}}

EmailResponse ==
  \/ EmailSettle(OkResponse(<<>>))
  \/ \E resp \in EmailFailures : EmailSettle(resp)

\* the 2000 ms timer a successful send starts
EmailCloseTimer ==
  /\ closeTimers > 0
  /\ closeTimers' = closeTimers - 1
  /\ isEmailModalOpen' = FALSE
  /\ intervieweeEmail' = <<>>
  /\ successMessage' = <<>>
  /\ UNCHANGED <<schedulingLoading, schedulingSuggestions, scheduledInterview,
                 emailContent, emailSending, schedTask, bookTasks, emailTask,
                 error, notSched>>

\* "Cancel" in the modal (disabled while emailSending)
CancelEmail ==
  /\ isEmailModalOpen
  /\ ~emailSending
  /\ isEmailModalOpen' = FALSE
  /\ successMessage' = <<>>
  /\ UNCHANGED <<schedulingLoading, schedulingSuggestions, scheduledInterview,
                 emailContent, intervieweeEmail, emailSending, schedTask,
                 bookTasks, emailTask, closeTimers, error, notSched>>

\* ------------------------------------------------------------------------
\* Interview copilot: PreInterviewBriefing
\* ------------------------------------------------------------------------
NameTxt == <<"c", "v", ".", "t", "x", "t">>

\* the file dialog's accept=".pdf" is a filter the user can switch off
UploadFiles == [name : {NameA, NameB, NameTxt}]

Guides == {<<"guide">>}

IdleUploadTask == [pc |-> "idle", reqs |-> <<>>]

\* onChange of the file input (disabled while isUploading); files is
\* event.target.files
handleFileUpload(files) ==
  /\ ~isUploading
  /\ uploadTask.pc = "idle"
  /\ IF files = <<>>
     THEN UNCHANGED <<isUploading, pibError, uploadTask>>
     ELSE /\ isUploading' = TRUE
          /\ pibError' = <<>>
          /\ uploadTask' = [pc |-> "await",
                            reqs |-> <<[ep |-> "/api/upload-resume", idx |-> 0,
                                        body |-> <<files[1].name>>]>>]
  /\ UNCHANGED <<candidateName, candidateResume, isGenerating, interviewGuide,
                 guideTask, notPib>>

FileUpload ==
  \E files \in {<<>>} \cup [1..1 -> UploadFiles] : handleFileUpload(files)

\* the request's answer: resp, and for an OK answer the body data
UploadSettle(resp, data) ==
  /\ uploadTask.pc = "await"
  /\ IF resp.net \/ ~resp.json
     THEN /\ pibError' = <<"Failed to upload resume. Make sure the backend server is running.">>
          /\ UNCHANGED <<candidateName, candidateResume>>
     ELSE IF resp.ok
     THEN /\ candidateName' = Or(data.candidate_name, <<>>)
          /\ candidateResume' = Or(data.raw_text, <<>>)
          /\ UNCHANGED pibError
     ELSE /\ pibError' = Or(resp.detail, <<"Failed to upload resume">>)
          /\ UNCHANGED <<candidateName, candidateResume>>
  /\ isUploading' = FALSE
  /\ uploadTask' = IdleUploadTask
  /\ UNCHANGED <<isGenerating, interviewGuide, guideTask, notPib>>

UploadResponse ==
  \/ \E name \in {NameA, <<>>} : UploadSettle(OkResponse(<<>>), ParsedOf(name))
  \/ \E resp \in ErrorResponses \cup {NetworkFailure} :
       UploadSettle(resp, ParsedOf(<<>>))

\* "Generate" (disabled while isGenerating or isUploading); the job
\* description and the interviewer's name are controlled inputs the handler
\* only reads, the job title is left at its default
generateInterviewGuide(briefingJobDescription, interviewerName) ==
  /\ ~isGenerating
  /\ ~isUploading
  /\ guideTask.pc = "idle"
  /\ IF \/ ~Truthy(Trim(briefingJobDescription))
        \/ ~Truthy(Trim(candidateResume))
        \/ ~Truthy(Trim(candidateName))
     THEN /\ pibError' = <<"Please fill in all required fields and upload a resume.">>
          /\ UNCHANGED <<isGenerating, guideTask>>
     ELSE /\ isGenerating' = TRUE
          /\ pibError' = <<>>
          /\ guideTask' =
               [pc |-> "await",
                reqs |-> <<[ep |-> "/api/generate-interview-guide", idx |-> 0,
                            body |->
                              [job_title |-> <<"Senior Software Engineer">>,
                               job_description |-> briefingJobDescription,
                               candidate_name |-> candidateName,
                               candidate_resume |-> candidateResume,
                               interviewer_name |->
                                 Or(interviewerName, <<"Interviewer">>)]]>>]
  /\ UNCHANGED <<candidateName, candidateResume, isUploading, interviewGuide,
                 uploadTask, notPib>>

DefaultJobDescription == <<"Senior", "Software", "Engineer">>

BriefingJobDescriptions == {DefaultJobDescription, <<" ">>}

\* the interviewer's name as typed: nothing, a space, a name
InterviewerNames == {<<>>, <<" ">>, <<"Dana">>}

GenerateInterviewGuide ==
  \E text \in BriefingJobDescriptions, interviewerName \in InterviewerNames :
    generateInterviewGuide(text, interviewerName)

\* variant: the body's error field is shown when there is no detail
GuideSettleErrorField(resp, guide) ==
  /\ guideTask.pc = "await"
  /\ IF resp.net \/ ~resp.json
     THEN /\ pibError' = <<"Failed to generate guide. Ensure backend server is running and GEMINI_API_KEY is configured.">>
          /\ UNCHANGED interviewGuide
     ELSE IF resp.ok
     THEN /\ interviewGuide' = guide
          /\ UNCHANGED pibError
     ELSE /\ pibError' = Or(Or(resp.detail, resp.error),
                            <<"Failed to generate interview guide">>)
          /\ UNCHANGED interviewGuide
  /\ isGenerating' = FALSE
  /\ guideTask' = IdleUploadTask
  /\ UNCHANGED <<candidateName, candidateResume, isUploading, uploadTask,
                 notPib>>

\* the fetch of generateInterviewGuide settles with resp
GuideSettle(resp, guide) ==
  /\ guideTask.pc = "await"
  /\ IF resp.net \/ ~resp.json
     THEN /\ pibError' = <<"Failed to generate guide. Ensure backend server is running and GEMINI_API_KEY is configured.">>
          /\ UNCHANGED interviewGuide
     ELSE IF resp.ok
     THEN /\ interviewGuide' = guide
          /\ UNCHANGED pibError
     ELSE /\ pibError' = Or(resp.detail, <<"Failed to generate interview guide">>)
          /\ UNCHANGED interviewGuide
  /\ isGenerating' = FALSE
  /\ guideTask' = IdleUploadTask
  /\ UNCHANGED <<candidateName, candidateResume, isUploading, uploadTask,
                 notPib>>

GuideResponse ==
  \/ \E guide \in Guides : GuideSettle(OkResponse(<<>>), guide)
  \/ \E resp \in ErrorResponses \cup {NetworkFailure} :
       GuideSettle(resp, <<>>)

\* ------------------------------------------------------------------------
\* Interview copilot: LiveInterviewModerator (demo mode)
\* ------------------------------------------------------------------------
HARDCODED_NUDGES ==
  << [time |-> 5000, message |-> <<"BIAS INTERRUPTER: Asking about personal family status">>],
     [time |-> 6000, message |-> <<"TALK RATIO MONITOR: You've been speaking for too long">>],
     [time |-> 13000, message |-> <<"BIAS INTERRUPTER: Comments about hiring 'younger guys'">>],
     [time |-> 17000, message |-> <<"BIAS INTERRUPTER: Questions about marital status">>],
     [time |-> 21000, message |-> <<"BIAS INTERRUPTER: Making assumptions about client preferences">>],
     [time |-> 25000, message |-> <<"TOPIC TRACKER: You haven't discussed Kubernetes yet">>],
     [time |-> 29000, message |-> <<"TALK RATIO MONITOR: The candidate is giving brief responses">>],
     [time |-> 33000, message |-> <<"TOPIC TRACKER: Still no discussion of Kubernetes">>],
     [time |-> 37000, message |-> <<"BIAS INTERRUPTER: Questioning someone's seniority level">>] >>

SIMULATED_TRANSCRIPT ==
  <<"chunk 1", "chunk 2", "chunk 3", "chunk 4", "chunk 5", "chunk 6",
    "chunk 7", "chunk 8", "chunk 9">>

SIMULATION_INTERVAL == 4000

SimulationStarted == "Simulation started... \n\n"

EndOfSimulation == "\n\n--- End of Simulation ---"

ToUpperTok(c) ==
  CASE c = "topic" -> "TOPIC"
    [] c = "tracker" -> "TRACKER"
    [] c = "automatic" -> "AUTOMATIC"
    [] c = "scribe" -> "SCRIBE"
    [] OTHER -> c

ToUpperCase(s) == [i \in 1..Len(s) |-> ToUpperTok(s[i])]

\* s.replace(/_/g, " ")
ReplaceUnderscores(s) == [i \in 1..Len(s) |-> IF s[i] = "_" THEN " " ELSE s[i]]

\* a message of the socket: json says whether JSON.parse accepts it, typed
\* whether the parsed value has a string event_type
InvalidJson ==
  [json |-> FALSE, typed |-> FALSE, event_type |-> <<>>, message |-> <<>>]

\* valid JSON without an event_type, e.g. {"status": "ok"}
Untyped ==
  [json |-> TRUE, typed |-> FALSE, event_type |-> <<>>, message |-> <<"ok">>]

AutomaticScribe ==
  [json |-> TRUE, typed |-> TRUE,
   event_type |-> <<"automatic", "_", "scribe">>, message |-> <<"noted">>]

TopicTracker ==
  [json |-> TRUE, typed |-> TRUE,
   event_type |-> <<"topic", "_", "tracker">>, message |-> <<"ask", "about", "AWS">>]

ServerMessages == {InvalidJson, Untyped, AutomaticScribe, TopicTracker}

\* variant: the event type is shown as it came
nudgeMessageRaw(data) == data.event_type \o <<": ">> \o data.message

\* `${data.event_type.replace(/_/g, " ").toUpperCase()}: ${data.message}`
nudgeMessage(data) ==
  ToUpperCase(ReplaceUnderscores(data.event_type)) \o <<": ">> \o data.message

\* variant: automatic_scribe events are shown like the others
handleNudgeUnfiltered(nudgeData) ==
  IF ~nudgeData.json THEN nudges
  ELSE IF ~nudgeData.typed THEN nudges
  ELSE Append(nudges, nudgeMessage(nudgeData))

\* the nudge list after handleNudge(nudgeData)
handleNudge(nudgeData) ==
  IF ~nudgeData.json THEN nudges
  ELSE IF nudgeData.typed /\ nudgeData.event_type = <<"automatic", "_", "scribe">>
  THEN nudges
  ELSE IF ~nudgeData.typed THEN nudges
  ELSE Append(nudges, nudgeMessage(nudgeData))

\* Math.random().toString(36).substr(2, 9)
RandomSuffixes == {"k3j9x0q1z", "p7m2c5v8b"}

\* "session_demo_" + Math.random().toString(36).substr(2, 9)
NewSessionId(random) == <<"session_demo_", random>>

\* `ws://127.0.0.1:8000/ws/interview/${sessionId}`
SocketUrl(random) == <<"ws://127.0.0.1:8000/ws/interview/">> \o NewSessionId(random)

\* texts of the moderator's job-description textarea
LiveJobDescriptions ==
  {DefaultJobDescription, <<"Data", "Analyst">>, <<" ">>}

\* variant: transcriptIndex is not reset
handleStartSessionKeepIndex(liveJobDescription, random) ==
  /\ ~isInterviewing
  /\ IF ~Truthy(Trim(liveJobDescription))
     THEN UNCHANGED limVars
     ELSE /\ showModal' = TRUE
          /\ isInterviewing' = TRUE
          /\ transcript' = <<>>
          /\ nudges' = <<>>
          /\ limError' = <<>>
          /\ ws' = "CONNECTING"
          /\ clock' = 0
          /\ wsSent' = <<>>
          /\ received' = <<>>
          /\ recNo' = 0
          /\ sockets' = sockets + 1
          /\ wsUrl' = SocketUrl(random)
          /\ sessionContext' = liveJobDescription
          /\ UNCHANGED <<isRecording, simulationTimer, nudgeTimers,
                         transcriptIndex, intervals>>
  /\ UNCHANGED notLim

\* variant: the Start button is not disabled during a session
handleStartSessionUnguarded(liveJobDescription, random) ==
  /\ IF ~Truthy(Trim(liveJobDescription))
     THEN UNCHANGED limVars
     ELSE /\ showModal' = TRUE
          /\ isInterviewing' = TRUE
          /\ transcript' = <<>>
          /\ nudges' = <<>>
          /\ limError' = <<>>
          /\ transcriptIndex' = 0
          /\ ws' = "CONNECTING"
          /\ clock' = 0
          /\ wsSent' = <<>>
          /\ received' = <<>>
          /\ recNo' = 0
          /\ sockets' = sockets + 1
          /\ wsUrl' = SocketUrl(random)
          /\ sessionContext' = liveJobDescription
          /\ UNCHANGED <<isRecording, simulationTimer, nudgeTimers, intervals>>
  /\ UNCHANGED notLim

\* the Start button (disabled while isInterviewing); the job description is
\* a controlled textarea the handler only reads
handleStartSession(liveJobDescription, random) ==
  /\ ~isInterviewing
  /\ IF ~Truthy(Trim(liveJobDescription))
     THEN UNCHANGED limVars
     ELSE /\ showModal' = TRUE
          /\ isInterviewing' = TRUE
          /\ transcript' = <<>>
          /\ nudges' = <<>>
          /\ limError' = <<>>
          /\ transcriptIndex' = 0
          /\ ws' = "CONNECTING"
          /\ clock' = 0
          /\ wsSent' = <<>>
          /\ received' = <<>>
          /\ recNo' = 0
          /\ sockets' = sockets + 1
          /\ wsUrl' = SocketUrl(random)
          /\ sessionContext' = liveJobDescription
          /\ UNCHANGED <<isRecording, simulationTimer, nudgeTimers, intervals>>
  /\ UNCHANGED notLim

\* the moderator's handlers never read the session id: here Math.random
\* has one outcome and the textarea its initial text or blanks
StartSession ==
  \E text \in {DefaultJobDescription, <<" ">>} :
    handleStartSession(text, "k3j9x0q1z")

\* any text of the textarea, any outcome of Math.random
StartSessionAny ==
  \E text \in LiveJobDescriptions, random \in RandomSuffixes :
    handleStartSession(text, random)

\* variant: the timeouts of the nudges are left pending
StopRecordingKeepNudgeTimers ==
  /\ intervals' = IF simulationTimer THEN intervals - 1 ELSE intervals
  /\ simulationTimer' = FALSE
  /\ nudgeTimers' = nudgeTimers
  /\ isRecording' = FALSE

\* what stopRecording() does to the timers and the flag
StopRecordingEffect ==
  /\ intervals' = IF simulationTimer THEN intervals - 1 ELSE intervals
  /\ simulationTimer' = FALSE
  /\ nudgeTimers' = {}
  /\ isRecording' = FALSE

\* variant: the session ends without stopRecording()
handleEndSessionKeepTimers ==
  /\ showModal
  /\ isInterviewing' = FALSE
  /\ showModal' = FALSE
  /\ ws' = "null"
  /\ sockets' = IF ws \in {"CONNECTING", "OPEN"} THEN sockets - 1 ELSE sockets
  /\ UNCHANGED <<isRecording, simulationTimer, nudgeTimers, intervals,
                 transcript, nudges, limError, transcriptIndex, clock, wsSent,
                 received, recNo, wsUrl,
                 sessionContext, notLim>>

\* the modal's close button
handleEndSession ==
  /\ showModal
  /\ StopRecordingEffect
  /\ isInterviewing' = FALSE
  /\ showModal' = FALSE
  /\ ws' = "null"
  /\ sockets' = IF ws \in {"CONNECTING", "OPEN"} THEN sockets - 1 ELSE sockets
  /\ UNCHANGED <<transcript, nudges, limError, transcriptIndex, clock, wsSent,
                 received, recNo, wsUrl,
                 sessionContext, notLim>>

\* the record button while not recording; recNo tells the first recording
\* of the session (1) from a later one (2)
startRecording ==
  /\ showModal
  /\ isInterviewing
  /\ ~isRecording
  /\ isRecording' = TRUE
  /\ limError' = <<>>
  /\ transcript' = <<SimulationStarted>>
  /\ nudges' = <<>>
  /\ nudgeTimers' = nudgeTimers \cup (1..Len(HARDCODED_NUDGES))
  /\ simulationTimer' = TRUE
  /\ clock' = 0
  /\ wsSent' = <<>>
  /\ received' = <<>>
  /\ recNo' = IF recNo = 0 THEN 1 ELSE 2
  /\ intervals' = intervals + 1
  /\ UNCHANGED <<showModal, isInterviewing, ws, transcriptIndex, sockets,
                 wsUrl,
                 sessionContext, notLim>>

\* the record button while recording
stopRecording ==
  /\ showModal
  /\ isInterviewing
  /\ isRecording
  /\ StopRecordingEffect
  /\ UNCHANGED <<showModal, isInterviewing, transcript, nudges, limError, ws,
                 transcriptIndex, clock, wsSent, received, recNo, sockets,
                 wsUrl,
                 sessionContext, notLim>>

\* timers fire in the order of their due times; clock is the due time of
\* the last one that fired, in ms since startRecording
NextTick == ((clock \div SIMULATION_INTERVAL) + 1) * SIMULATION_INTERVAL

\* variant: only the new chunk is sent
wsSendChunk(newTranscript, chunk) ==
  IF ws = "OPEN" THEN << <<chunk, "\n\n">> >> ELSE <<>>

\* the messages the setTranscript updater passes to ws.current.send
wsSend(newTranscript, chunk) ==
  IF ws = "OPEN" THEN <<newTranscript>> ELSE <<>>

\* the callback of setInterval; wsSent gets one entry per chunk appended in
\* the recording: whether the socket was OPEN, and the messages sent
IntervalTick ==
  /\ intervals > 0
  /\ \A i \in nudgeTimers : HARDCODED_NUDGES[i].time > NextTick
  /\ clock' = NextTick
  /\ IF transcriptIndex >= Len(SIMULATED_TRANSCRIPT)
     THEN /\ transcript' = Append(transcript, EndOfSimulation)
          /\ StopRecordingEffect
          /\ UNCHANGED <<transcriptIndex, wsSent>>
     ELSE LET chunk == SIMULATED_TRANSCRIPT[transcriptIndex + 1]
              newTranscript == transcript \o <<chunk, "\n\n">>
          IN /\ transcript' = newTranscript
             /\ wsSent' = Append(wsSent,
                            [open |-> ws = "OPEN",
                             msgs |-> wsSend(newTranscript, chunk)])
             /\ transcriptIndex' = transcriptIndex + 1
             /\ UNCHANGED <<simulationTimer, nudgeTimers, isRecording,
                            intervals>>
  /\ UNCHANGED <<showModal, isInterviewing, nudges, limError, ws, received,
                 recNo, sockets, wsUrl,
                 sessionContext, notLim>>

\* the callback of the i-th setTimeout
NudgeTimer(i) ==
  /\ i \in nudgeTimers
  /\ HARDCODED_NUDGES[i].time < NextTick
  /\ \A j \in nudgeTimers : HARDCODED_NUDGES[i].time <= HARDCODED_NUDGES[j].time
  /\ clock' = HARDCODED_NUDGES[i].time
  /\ nudges' = Append(nudges, HARDCODED_NUDGES[i].message)
  /\ nudgeTimers' = nudgeTimers \ {i}
  /\ UNCHANGED <<showModal, isInterviewing, isRecording, transcript, limError,
                 ws, simulationTimer, transcriptIndex, wsSent, received, recNo,
                 sockets, intervals, wsUrl,
                 sessionContext, notLim>>

NudgeTimers == \E i \in 1..Len(HARDCODED_NUDGES) : NudgeTimer(i)

\* ws.onopen
WsOpen ==
  /\ ws = "CONNECTING"
  /\ ws' = "OPEN"
  /\ UNCHANGED <<showModal, isInterviewing, isRecording, transcript, nudges,
                 limError, simulationTimer, transcriptIndex, nudgeTimers, clock,
                 wsSent, received, recNo, sockets, intervals, wsUrl,
                 sessionContext, notLim>>

\* ws.onerror: the connection fails
WsError ==
  /\ ws \in {"CONNECTING", "OPEN"}
  /\ ws' = "CLOSED"
  /\ limError' = <<"WebSocket connection failed. Ensure the backend server is running.">>
  /\ StopRecordingEffect
  /\ sockets' = sockets - 1
  /\ UNCHANGED <<showModal, isInterviewing, transcript, nudges,
                 transcriptIndex, clock, wsSent, received, recNo, wsUrl,
                 sessionContext, notLim>>

\* ws.onclose: the server closes the connection
WsClose ==
  /\ ws = "OPEN"
  /\ ws' = "CLOSED"
  /\ sockets' = sockets - 1
  /\ UNCHANGED <<showModal, isInterviewing, isRecording, transcript, nudges,
                 limError, simulationTimer, transcriptIndex, nudgeTimers, clock,
                 wsSent, received, recNo, intervals, wsUrl,
                 sessionContext, notLim>>

\* ws.onmessage; received is the history of event.data since the nudge list
\* was last cleared
WsMessage ==
  \E data \in ServerMessages :
    /\ ws = "OPEN"
    /\ Len(received) < MaxSrv
    /\ nudges' = handleNudge(data)
    /\ received' = Append(received, data)
    /\ UNCHANGED <<showModal, isInterviewing, isRecording, transcript, limError,
                   ws, simulationTimer, transcriptIndex, nudgeTimers, clock,
                   wsSent, recNo, sockets, intervals, wsUrl,
                 sessionContext, notLim>>

\* ------------------------------------------------------------------------
\* Interview copilot: PostInterviewAnalysis
\* ------------------------------------------------------------------------
mockTranscript ==
  <<"Interviewer: Can you tell me about your experience with Python and Django?",
    "Candidate: I have over 6 years of experience with Python",
    "Interviewer: That's great. What about your experience with AWS?",
    "Candidate: I'm comfortable with EC2, RDS, S3, and Lambda.">>

Analyses == {<<"analysis">>}

\* the first render: the initializer of useState draws the component's id
PostInterviewAnalysisMount ==
  /\ sessionId = <<>>
  /\ \E random \in RandomSuffixes : sessionId' = NewSessionId(random)
  /\ UNCHANGED <<analysisGenerating, analysis, analysisError, analysisTask,
                 notPia>>

\* "Generate Analysis" (disabled while isGenerating)
generateAnalysis ==
  /\ sessionId # <<>>
  /\ ~analysisGenerating
  /\ analysisTask.pc = "idle"
  /\ analysisGenerating' = TRUE
  /\ analysisError' = <<>>
  /\ analysisTask' =
       [pc |-> "await",
        reqs |-> <<[ep |-> "/api/generate-interview-analysis", idx |-> 0,
                    body |-> [interview_session_id |-> sessionId,
                              job_title |-> <<"Senior Software Engineer">>,
                              job_description |-> DefaultJobDescription,
                              candidate_name |-> <<"Sarah Johnson">>,
                              interview_transcript |-> mockTranscript]]>>]
  /\ UNCHANGED <<sessionId, analysis, notPia>>

\* the fetch of generateAnalysis settles with resp
AnalysisSettle(resp, data) ==
  /\ analysisTask.pc = "await"
  /\ IF resp.net \/ ~resp.json
     THEN /\ analysisError' = <<"Failed to generate analysis. Ensure backend server is running and GEMINI_API_KEY is configured.">>
          /\ UNCHANGED analysis
     ELSE IF resp.ok
     THEN /\ analysis' = data
          /\ UNCHANGED analysisError
     ELSE /\ analysisError' = Or(resp.detail, <<"Failed to generate analysis">>)
          /\ UNCHANGED analysis
  /\ analysisGenerating' = FALSE
  /\ analysisTask' = IdleUploadTask
  /\ UNCHANGED <<sessionId, notPia>>

AnalysisResponse ==
  \/ \E data \in Analyses : AnalysisSettle(OkResponse(<<>>), data)
  \/ \E resp \in ErrorResponses \cup {NetworkFailure} :
       AnalysisSettle(resp, <<>>)

\* ------------------------------------------------------------------------
\* Home: onboarding
\* ------------------------------------------------------------------------
\* useState<OnboardingPlan | null>(null)
NullPlan == [null |-> TRUE]

\* plans the backend can return: a full one, and one without a first-day
\* schedule, goals or manager
Plans ==
  {[null |-> FALSE, candidate_name |-> <<"Ann">>, start_date |-> <<"2025-01-06">>,
    job_title |-> <<"Engineer">>, first_day_schedule |-> <<"9:00 badge">>,
    first_week_goals |-> <<<<"meet the team">>, <<"set up laptop">>>>,
    manager_name |-> <<"Sarah">>],
   [null |-> FALSE, candidate_name |-> <<"Bob">>, start_date |-> <<"2025-02-03">>,
    job_title |-> <<"Analyst">>, first_day_schedule |-> <<>>,
    first_week_goals |-> <<>>, manager_name |-> <<>>]}

OnboardingNames == {<<>>, <<"Ann">>}

\* list.join(sep)
RECURSIVE Join(_, _)
Join(list, sep) ==
  IF list = <<>> THEN <<>>
  ELSE IF Len(list) = 1 THEN list[1]
  ELSE list[1] \o <<sep>> \o Join(Tail(list), sep)

IdleOnboardingTask == [pc |-> "idle", kind |-> "none", reqs |-> <<>>]

\* the form's candidate-name field (the other six fields of the form are
\* sent the same way and read nowhere else)
SetOnboardingCandidateName ==
  \E value \in OnboardingNames :
    /\ onboardingCandidateName' = value
    /\ UNCHANGED <<generatedOnboardingPlan, onboardingEmail, onboardingLoading,
                   onboardingStatus, onboardingTask, lastPlan, error, notOnb>>

\* the address field next to the buttons (never disabled)
SetOnboardingEmail ==
  \E value \in Emails :
    /\ onboardingEmail' = value
    /\ UNCHANGED <<onboardingCandidateName, generatedOnboardingPlan,
                   onboardingLoading, onboardingStatus, onboardingTask,
                   lastPlan, error, notOnb>>

\* variant: the plan on display is kept while the new one is requested
handleGenerateOnboardingPlanKeepPlan ==
  /\ ~onboardingLoading
  /\ onboardingLoading' = TRUE
  /\ onboardingStatus' = <<"Generating onboarding plan...">>
  /\ onboardingTask' =
       [pc |-> "await", kind |-> "generate",
        reqs |-> <<[ep |-> "/api/onboarding-plan/generate", idx |-> 0,
                    body |-> [candidate_name |-> onboardingCandidateName]]>>]
  /\ UNCHANGED <<onboardingCandidateName, generatedOnboardingPlan,
                 onboardingEmail, lastPlan, error, notOnb>>

\* "Generate Onboarding Plan" (disabled while onboardingLoading)
handleGenerateOnboardingPlan ==
  /\ ~onboardingLoading
  /\ onboardingLoading' = TRUE
  /\ onboardingStatus' = <<"Generating onboarding plan...">>
  /\ generatedOnboardingPlan' = NullPlan
  /\ onboardingTask' =
       [pc |-> "await", kind |-> "generate",
        reqs |-> <<[ep |-> "/api/onboarding-plan/generate", idx |-> 0,
                    body |-> [candidate_name |-> onboardingCandidateName]]>>]
  /\ UNCHANGED <<onboardingCandidateName, onboardingEmail, lastPlan, error,
                 notOnb>>

\* what an onboarding handler throws for the answer resp; other is the
\* second field of the body it looks at (data.error or data.message)
OnboardingThrown(resp, other, fallback) ==
  IF resp.net THEN NetworkError
  ELSE IF ~resp.json THEN JsonSyntaxError
  ELSE IF ~resp.ok THEN MkError(Or(resp.detail, Or(other, <<fallback>>)))
  ELSE [name |-> "none", message |-> <<>>]

\* the fetch of handleGenerateOnboardingPlan settles with resp, whose body
\* carries plan (NullPlan: none)
GenerateSettle(resp, plan) ==
  LET thrown == OnboardingThrown(resp, resp.error,
                                 "Failed to generate onboarding plan")
  IN
  /\ onboardingTask.pc = "await"
  /\ onboardingTask.kind = "generate"
  /\ IF thrown.name # "none"
     THEN /\ onboardingStatus' = <<"Error: ">> \o thrown.message
          /\ UNCHANGED <<generatedOnboardingPlan, lastPlan>>
     ELSE /\ generatedOnboardingPlan' = plan
          /\ onboardingStatus' = <<"Onboarding plan generated.">>
          /\ lastPlan' = IF plan # NullPlan THEN plan ELSE lastPlan
  /\ onboardingLoading' = FALSE
  /\ onboardingTask' = IdleOnboardingTask
  /\ UNCHANGED <<onboardingCandidateName, onboardingEmail, error, notOnb>>

GenerateResponse ==
  \/ \E plan \in Plans \cup {NullPlan} : GenerateSettle(OkResponse(<<>>), plan)
  \/ \E resp \in EmailFailures : GenerateSettle(resp, NullPlan)

WelcomeSubject(plan) ==
  <<"Welcome ">> \o plan.candidate_name \o <<" to the team">>

WelcomeBody(plan) ==
  <<"Hello,\n\nPlease join me in welcoming ">> \o plan.candidate_name
    \o <<", who will start on ">> \o plan.start_date
    \o <<" as ">> \o plan.job_title
    \o <<".\n\nFirst day schedule:\n">>
    \o Or(plan.first_day_schedule, <<"Please refer to the onboarding plan.">>)
    \o <<"\n\nKey first-week goals:\n">>
    \o Join(plan.first_week_goals, "\n")
    \o <<"\n\nBest regards,\n">>
    \o Or(plan.manager_name, <<"Hiring Team">>)

WelcomeRequest(plan, to) ==
  [ep |-> "/api/send-email", idx |-> 0,
   body |-> [to_email |-> to, subject |-> WelcomeSubject(plan),
             body |-> WelcomeBody(plan)]]

\* "Send Welcome Email" (disabled while onboardingLoading and while there
\* is no plan)
handleSendWelcomeEmail ==
  /\ ~onboardingLoading
  /\ generatedOnboardingPlan # NullPlan
  /\ IF generatedOnboardingPlan = NullPlan
     THEN /\ onboardingStatus' =
               <<"Please generate an onboarding plan first.">>
          /\ UNCHANGED <<onboardingLoading, onboardingTask>>
     ELSE IF ~Truthy(onboardingEmail)
     THEN /\ onboardingStatus' =
               <<"Please enter an email address to send the welcome email.">>
          /\ UNCHANGED <<onboardingLoading, onboardingTask>>
     ELSE /\ onboardingLoading' = TRUE
          /\ onboardingStatus' =
               <<"Sending welcome email to ">> \o onboardingEmail \o <<"...">>
          /\ onboardingTask' =
               [pc |-> "await", kind |-> "welcome",
                reqs |-> <<WelcomeRequest(generatedOnboardingPlan,
                                          onboardingEmail)>>]
  /\ UNCHANGED <<onboardingCandidateName, generatedOnboardingPlan,
                 onboardingEmail, lastPlan, error, notOnb>>

\* the fetch of handleSendWelcomeEmail settles with resp
WelcomeSettle(resp) ==
  LET thrown == OnboardingThrown(resp, resp.message, "Failed to send email")
  IN
  /\ onboardingTask.pc = "await"
  /\ onboardingTask.kind = "welcome"
  /\ onboardingStatus' =
       IF thrown.name # "none" THEN <<"Error: ">> \o thrown.message
       ELSE <<"Welcome email sent successfully.">>
  /\ onboardingLoading' = FALSE
  /\ onboardingTask' = IdleOnboardingTask
  /\ UNCHANGED <<onboardingCandidateName, generatedOnboardingPlan,
                 onboardingEmail, lastPlan, error, notOnb>>

WelcomeResponse ==
  \/ WelcomeSettle(OkResponse(<<>>))
  \/ \E resp \in EmailFailures : WelcomeSettle(resp)

\* ------------------------------------------------------------------------
\* Specifications
\* ------------------------------------------------------------------------
Init ==
  /\ jobDescription = <<>>
  /\ jobLoading = FALSE
  /\ jobTask = IdleJobTask
  /\ resumeFiles = <<>>
  /\ parsedResumes = EmptyMap
  /\ screeningResults = <<>>
  /\ screeningLoading = FALSE
  /\ parsing = FALSE
  /\ parseTask = IdleTask
  /\ screenTask = IdleScreenTask
  /\ schedulingLoading = FALSE
  /\ schedulingSuggestions = <<>>
  /\ scheduledInterview = "null"
  /\ emailContent = <<>>
  /\ isEmailModalOpen = FALSE
  /\ intervieweeEmail = <<>>
  /\ emailSending = FALSE
  /\ successMessage = <<>>
  /\ schedTask = IdleSchedTask
  /\ bookTasks = <<>>
  /\ emailTask = IdleEmailTask
  /\ closeTimers = 0
  /\ error = <<>>
  /\ candidateName = <<>>
  /\ candidateResume = <<>>
  /\ isUploading = FALSE
  /\ isGenerating = FALSE
  /\ interviewGuide = <<>>
  /\ pibError = <<>>
  /\ uploadTask = IdleUploadTask
  /\ guideTask = IdleUploadTask
  /\ showModal = FALSE
  /\ isInterviewing = FALSE
  /\ isRecording = FALSE
  /\ transcript = <<>>
  /\ nudges = <<>>
  /\ limError = <<>>
  /\ ws = "null"
  /\ simulationTimer = FALSE
  /\ transcriptIndex = 0
  /\ nudgeTimers = {}
  /\ clock = 0
  /\ wsSent = <<>>
  /\ received = <<>>
  /\ recNo = 0
  /\ sockets = 0
  /\ intervals = 0
  /\ wsUrl = <<>>
  /\ sessionContext = <<>>
  /\ sessionId = <<>>
  /\ analysisGenerating = FALSE
  /\ analysis = <<>>
  /\ analysisError = <<>>
  /\ analysisTask = IdleUploadTask
  /\ onboardingCandidateName = <<>>
  /\ generatedOnboardingPlan = NullPlan
  /\ onboardingEmail = <<>>
  /\ onboardingLoading = FALSE
  /\ onboardingStatus = <<>>
  /\ onboardingTask = IdleOnboardingTask
  /\ lastPlan = NullPlan

\* Home: the screening tab
NextScreening ==
  \/ ResumeSelection
  \/ RemoveResume
  \/ handleClearAllResumes
  \/ handleParseResumes
  \/ ParseResponse
  \/ ScreenApplicants
  \/ ScreenParseResponse
  \/ ScreenResponse

SpecScreening == Init /\ [][NextScreening]_vars

\* Home: the job-description tab, the scheduling tab and the e-mail modal
NextForms ==
  \/ GenerateDescription
  \/ JobResponse
  \/ GenerateSchedulingSuggestions
  \/ ScheduleInterview
  \/ SchedResponse
  \/ BookSpecificSlot
  \/ BookResponse
  \/ SetIntervieweeEmail
  \/ handleSendEmail
  \/ EmailResponse
  \/ EmailCloseTimer
  \/ CancelEmail

SpecForms == Init /\ [][NextForms]_vars

\* Interview copilot: the briefing card
NextBriefing ==
  \/ FileUpload
  \/ UploadResponse
  \/ GenerateInterviewGuide
  \/ GuideResponse

SpecBriefing == Init /\ [][NextBriefing]_vars

\* Interview copilot: the live moderator
NextLive ==
  \/ StartSession
  \/ handleEndSession
  \/ startRecording
  \/ stopRecording
  \/ IntervalTick
  \/ NudgeTimers
  \/ WsOpen
  \/ WsError
  \/ WsClose
  \/ WsMessage

SpecLive == Init /\ [][NextLive]_vars

\* the job tab and the briefing card: the handlers whose error banners show
\* what the backend answered
NextErrors ==
  \/ GenerateDescription
  \/ JobResponse
  \/ FileUpload
  \/ UploadResponse
  \/ GenerateInterviewGuide
  \/ GuideResponse

SpecErrors == Init /\ [][NextErrors]_vars

\* Interview copilot: a live session, what it sends to the backend, and the
\* analysis card
NextSession ==
  \/ StartSessionAny
  \/ handleEndSession
  \/ startRecording
  \/ stopRecording
  \/ IntervalTick
  \/ NudgeTimers
  \/ WsOpen
  \/ PostInterviewAnalysisMount
  \/ generateAnalysis
  \/ AnalysisResponse

SpecSession == Init /\ [][NextSession]_vars

\* Home: the onboarding tab
NextOnboarding ==
  \/ SetOnboardingCandidateName
  \/ SetOnboardingEmail
  \/ handleGenerateOnboardingPlan
  \/ GenerateResponse
  \/ handleSendWelcomeEmail
  \/ WelcomeResponse

SpecOnboarding == Init /\ [][NextOnboarding]_vars

\* Home: every handler that sets a loading flag. The areas of the page share
\* no state but the banner, which no handler reads, so a behaviour uses one
\* area: an area acts while the others are as the page was constructed.
JobUntouched == jobVars = <<<<>>, FALSE, IdleJobTask>>

SchedulingUntouched ==
  schedVars = <<FALSE, <<>>, "null", <<>>, FALSE, <<>>, FALSE, <<>>,
                IdleSchedTask, <<>>, IdleEmailTask, 0>>

ScreeningUntouched ==
  screeningVars = <<<<>>, EmptyMap, <<>>, FALSE, FALSE, IdleTask,
                    IdleScreenTask>>

OnboardingUntouched ==
  onbVars = <<<<>>, NullPlan, <<>>, FALSE, <<>>, IdleOnboardingTask, NullPlan>>

\* the file dialog, two PDFs picked at once
SelectTwoResumes ==
  handleResumeSelection(<<[name |-> NameA], [name |-> NameB]>>)

LoadingJob ==
  /\ SchedulingUntouched /\ ScreeningUntouched /\ OnboardingUntouched
  /\ \/ GenerateDescription
     \/ JobResponse

LoadingScheduling ==
  /\ JobUntouched /\ ScreeningUntouched /\ OnboardingUntouched
  /\ \/ GenerateSchedulingSuggestions
     \/ ScheduleInterview
     \/ SchedResponse
     \/ BookSpecificSlot
     \/ BookResponse
     \/ SetIntervieweeEmail
     \/ handleSendEmail
     \/ EmailResponse
     \/ EmailCloseTimer
     \/ CancelEmail

LoadingScreening ==
  /\ JobUntouched /\ SchedulingUntouched /\ OnboardingUntouched
  /\ \/ SelectTwoResumes
     \/ handleClearAllResumes
     \/ handleParseResumes
     \/ ParseResponse
     \/ ScreenApplicants
     \/ ScreenParseResponse
     \/ ScreenResponse

LoadingOnboarding ==
  /\ JobUntouched /\ SchedulingUntouched /\ ScreeningUntouched
  /\ NextOnboarding

NextLoading ==
  \/ LoadingJob
  \/ LoadingScheduling
  \/ LoadingScreening
  \/ LoadingOnboarding

\* every fetch settles: the browser resolves or rejects its promise, and the
\* handler's continuation then runs
RequestsSettle ==
  /\ WF_vars(JobResponse)
  /\ WF_vars(ParseResponse)
  /\ WF_vars(ScreenParseResponse)
  /\ WF_vars(ScreenResponse)
  /\ WF_vars(SchedResponse)
  /\ WF_vars(EmailResponse)
  /\ WF_vars(GenerateResponse)
  /\ WF_vars(WelcomeResponse)

SpecLoading == Init /\ [][NextLoading]_vars /\ RequestsSettle

\* ------------------------------------------------------------------------
\* Properties
\* ------------------------------------------------------------------------
\* the name ends in ".pdf", whatever the case of its letters
EndsInDotPdf(name) ==
  /\ Len(name) >= 4
  /\ name[Len(name) - 3] = "."
  /\ name[Len(name) - 2] \in {"p", "P"}
  /\ name[Len(name) - 1] \in {"d", "D"}
  /\ name[Len(name)] \in {"f", "F"}

\* C1: resumeFiles never holds two files with the same name.
C1_NoDuplicateNames ==
  \A i, j \in 1..Len(resumeFiles) :
    i # j => resumeFiles[i].name # resumeFiles[j].name

ParseRequestsOf(task) ==
  {task.reqs[k] : k \in {n \in 1..Len(task.reqs) :
                           task.reqs[n].ep = "/api/parse-resume"}}

\* C2: a selection with a file whose name does not end in ".pdf" (any case)
\* changes none of resumeFiles, parsedResumes, screeningResults and sets the
\* banner to "Only PDF files are supported."; no /api/parse-resume request
\* ever carries such a name.
C2_NonPdfRejected ==
  /\ \A r \in ParseRequestsOf(parseTask) \cup ParseRequestsOf(screenTask) :
       EndsInDotPdf(r.body[1])
  /\ \A newFiles \in Selections :
       (\E k \in 1..Len(newFiles) : ~EndsInDotPdf(newFiles[k].name))
       => SelectionOutcome(newFiles) =
            [error |-> <<"Only PDF files are supported.">>,
             resumeFiles |-> resumeFiles,
             parsedResumes |-> parsedResumes,
             screeningResults |-> screeningResults]

\* a selection was rejected while a file was listed and parsed
C2_Witness ==
  /\ error = <<"Only PDF files are supported.">>
  /\ Len(resumeFiles) > 0
  /\ DOMAIN parsedResumes # {}

\* C3: handleFileUpload sends no /api/upload-resume request for a file whose
\* name does not end in ".pdf".
C3_NoUploadOfNonPdf ==
  \A k \in 1..Len(uploadTask.reqs) : EndsInDotPdf(uploadTask.reqs[k].body[1])

\* C4: with an empty intervieweeEmail, handleSendEmail sends no request, sets
\* the banner, leaves emailSending false and the modal open; no
\* /api/send-email request ever carries an empty address.
C4_EmptyAddressRejected ==
  /\ [](\A k \in 1..Len(emailTask.reqs) : emailTask.reqs[k].body[1] # <<>>)
  /\ [][(handleSendEmail /\ intervieweeEmail = <<>>)
          => /\ UNCHANGED emailTask
             /\ emailTask.pc = "idle"
             /\ error' = <<"Please enter the interviewee's email address.">>
             /\ ~emailSending /\ ~emailSending'
             /\ isEmailModalOpen /\ isEmailModalOpen']_vars

\* "Send Email" was clicked with the field empty
C4_Witness ==
  /\ error = <<"Please enter the interviewee's email address.">>
  /\ intervieweeEmail = <<>>
  /\ isEmailModalOpen
  /\ ~emailSending
  /\ emailTask.pc = "idle"

\* the requests of one invocation: none outside an invocation; each sent
\* once; each but the last answered without a failure; a parse request only
\* for a file the invocation did not find parsed
C5_TaskSendsOnce(task) ==
  /\ task.pc = "idle" => task.reqs = <<>>
  /\ task.pc # "idle" => Len(task.reqs) = task.oks + 1
  /\ \A i, j \in 1..Len(task.reqs) :
       i # j => <<task.reqs[i].ep, task.reqs[i].idx>>
                  # <<task.reqs[j].ep, task.reqs[j].idx>>
  /\ \A r \in ParseRequestsOf(task) :
       task.files[r.idx].name \notin DOMAIN task.known

\* C5: an invocation of handleParseResumes or handleScreenApplicants sends
\* each of its requests at most once (one /api/parse-resume request per file
\* not yet parsed), and sends nothing more once a request has failed.
C5_NoRetry == C5_TaskSendsOnce(parseTask) /\ C5_TaskSendsOnce(screenTask)

\* the second file is being parsed after the first was answered
C5_Witness ==
  /\ parseTask.pc = "await"
  /\ Len(parseTask.reqs) = 2
  /\ parseTask.oks = 1

\* non-OK answers with a JSON body
JsonErrors == {r \in ErrorResponses : r.json}

\* C6 (as stated): after a non-OK answer whose JSON body carries a detail or
\* error field, the message shown is exactly that field's text.
C6_Verbatim ==
  [][\A resp \in {r \in JsonErrors : Truthy(r.detail) \/ Truthy(r.error)} :
       LET text == Or(resp.detail, resp.error) IN
       /\ GuideSettle(resp, <<>>) => pibError' = text
       /\ UploadSettle(resp, ParsedOf(<<>>)) => pibError' = text
       /\ JobSettle(resp, <<>>) => error' = text]_vars

\* C6 (amended): after a non-OK answer with a JSON body, the briefing card
\* shows the body's detail text when it is not empty and a fixed message
\* otherwise, never the error field; the job tab shows
\* "Failed to generate job description: HTTP error! status: <status>"
\* whatever the body carries.
C6_DetailOrStatus ==
  [][\A resp \in JsonErrors :
       /\ GuideSettle(resp, <<>>) =>
            pibError' = IF resp.detail # <<>> THEN resp.detail
                        ELSE <<"Failed to generate interview guide">>
       /\ UploadSettle(resp, ParsedOf(<<>>)) =>
            pibError' = IF resp.detail # <<>> THEN resp.detail
                        ELSE <<"Failed to upload resume">>
       /\ JobSettle(resp, <<>>) =>
            error' = <<"Failed to generate job description", ": ",
                       "HTTP error! status: ", resp.status>>]_vars

\* the briefing card shows a detail, the job tab a status
C6_Witness ==
  /\ pibError = <<"quota", "exceeded">>
  /\ error = <<"Failed to generate job description", ": ",
               "HTTP error! status: ", "500">>

IsHardcoded(n) ==
  \E i \in 1..Len(HARDCODED_NUDGES) : n = HARDCODED_NUDGES[i].message

NotHardcoded(n) == ~IsHardcoded(n)

\* the hardcoded nudges whose offset is not after time t
DueBy(t) == {i \in 1..Len(HARDCODED_NUDGES) : HARDCODED_NUDGES[i].time <= t}

\* C7: in a recording the hardcoded nudges shown are the first ones of the
\* list, once each and in list order, those whose offset has passed; when the
\* simulation has stopped itself all nine are shown.
C7_NineNudgesBeforeSelfStop ==
  LET shown == SelectSeq(nudges, IsHardcoded) IN
  /\ \E k \in 0..Len(HARDCODED_NUDGES) :
       /\ shown = [i \in 1..k |-> HARDCODED_NUDGES[i].message]
       /\ isRecording => k = Cardinality(DueBy(clock))
  /\ (transcript # <<>> /\ transcript[Len(transcript)] = EndOfSimulation)
       => Len(shown) = Len(HARDCODED_NUDGES)

\* the header and the first k chunks of the script
ScriptUpTo(k) ==
  [j \in 1..(1 + 2 * k) |->
     IF j = 1 THEN SimulationStarted
     ELSE IF j % 2 = 0 THEN SIMULATED_TRANSCRIPT[j \div 2]
     ELSE "\n\n"]

\* C8: in the first recording of a session, while it runs the transcript is
\* the header and chunks 1..k after k ticks (k <= 9); the tenth tick appends
\* the end marker, clears the interval and ends the recording.
C8_ScriptedReplay ==
  recNo = 1 =>
    LET k == clock \div SIMULATION_INTERVAL IN
    /\ k <= Len(SIMULATED_TRANSCRIPT) + 1
    /\ isRecording =>
         /\ k <= Len(SIMULATED_TRANSCRIPT)
         /\ simulationTimer
         /\ transcript = ScriptUpTo(k)
    /\ k = Len(SIMULATED_TRANSCRIPT) + 1 =>
         /\ ~isRecording
         /\ ~simulationTimer
         /\ transcript =
              Append(ScriptUpTo(Len(SIMULATED_TRANSCRIPT)), EndOfSimulation)

\* the first recording of a session ran to its end
C8_Witness ==
  /\ recNo = 1
  /\ clock = (Len(SIMULATED_TRANSCRIPT) + 1) * SIMULATION_INTERVAL
  /\ ~isRecording
  /\ transcript[Len(transcript)] = EndOfSimulation

\* C9: for the j-th chunk appended in a recording, one message was sent if
\* the socket was OPEN, the transcript up to and including that chunk, and
\* none otherwise.
C9_RelaysAccumulatedTranscript ==
  \A j \in 1..Len(wsSent) :
    IF wsSent[j].open
    THEN wsSent[j].msgs = <<SubSeq(transcript, 1, 1 + 2 * j)>>
    ELSE wsSent[j].msgs = <<>>

\* chunks were appended before and after the socket opened
C9_Witness ==
  /\ \E j \in 1..Len(wsSent) : ~wsSent[j].open
  /\ \E j \in 1..Len(wsSent) : j >= 2 /\ wsSent[j].open

IsValidJson(data) == data.json

Displayable(data) ==
  data.json /\ data.typed /\ data.event_type # <<"automatic", "_", "scribe">>

C11_OneSocketPerSession ==
  /\ (ws # "null") <=> isInterviewing
  /\ showModal <=> isInterviewing
  /\ isRecording => isInterviewing
  /\ sockets <= 1
  /\ sockets = IF ws \in {"CONNECTING", "OPEN"} THEN 1 ELSE 0

\* a session goes on after its socket failed during a recording
C11_Witness ==
  /\ isInterviewing
  /\ showModal
  /\ ws = "CLOSED"
  /\ sockets = 0
  /\ recNo = 2
  /\ isRecording

\* the part of the nudge list that the recording's timeouts wrote
HardcodedShown(list) == SelectSeq(list, IsHardcoded)

\* C12: outside a session the modal is closed, recording is off, no interval
\* and no nudge timeout is pending, the socket is closed and its reference
\* is null; and no step taken outside a session changes the transcript, adds
\* a hardcoded nudge or sends anything.
C12_EndSessionStopsAll ==
  /\ [](~isInterviewing =>
          /\ ~showModal
          /\ ~isRecording
          /\ ~simulationTimer
          /\ intervals = 0
          /\ nudgeTimers = {}
          /\ ws = "null"
          /\ sockets = 0)
  /\ [][(~isInterviewing /\ ~isInterviewing') =>
          UNCHANGED <<transcript, nudges, wsSent>>]_vars

\* a session was closed in the middle of a recording
C12_Witness ==
  /\ ~isInterviewing
  /\ ~showModal
  /\ Len(wsSent) = 2
  /\ Len(HardcodedShown(nudges)) = 2
  /\ transcript[Len(transcript)] # EndOfSimulation

\* C15: a message that is not JSON, or an automatic_scribe event, leaves the
\* nudge list as it is; a message with another event_type and a message text
\* appends one entry, the event type in upper case with spaces for
\* underscores, ": " and the text; handling a message changes nothing but
\* the nudge list.
C15_ScribeAndBadInputIgnored ==
  /\ [](/\ handleNudge(InvalidJson) = nudges
        /\ handleNudge(AutomaticScribe) = nudges
        /\ handleNudge(TopicTracker) =
             Append(nudges, <<"TOPIC", " ", "TRACKER", ": ", "ask", "about", "AWS">>))
  /\ [][WsMessage => UNCHANGED <<transcript, limError, showModal,
                                 isInterviewing, isRecording>>]_vars

\* a scribe event and a bad message were dropped during a recording
C15_Witness ==
  /\ received = <<AutomaticScribe, InvalidJson>>
  /\ isRecording
  /\ Len(transcript) > 1
  /\ HardcodedShown(nudges) = nudges

\* C16: while recording is off no interval and no nudge timeout is pending;
\* while it is on exactly one interval is active; and a step that begins and
\* ends with recording off adds no chunk and no hardcoded nudge.
C16_StoppedMeansNoTimers ==
  /\ [](/\ ~isRecording => (~simulationTimer /\ intervals = 0 /\ nudgeTimers = {})
        /\ isRecording => (simulationTimer /\ intervals = 1))
  /\ [][(~isRecording /\ ~isRecording') =>
          /\ transcript' \in {transcript, <<>>}
          /\ HardcodedShown(nudges') \in {HardcodedShown(nudges), <<>>}
          /\ wsSent' \in {wsSent, <<>>}]_vars

\* a socket error stopped a recording in mid-script
C16_Witness ==
  /\ ~isRecording
  /\ isInterviewing
  /\ ws = "CLOSED"
  /\ Len(wsSent) = 3
  /\ Len(HardcodedShown(nudges)) = 3

\* the id in the URL of the live session's socket
LiveSessionId == SubSeq(wsUrl, 2, Len(wsUrl))

\* C13: when a live session has captured a transcript, the request of
\* generateAnalysis carries that transcript as interview_transcript and the
\* id of that session as interview_session_id.
C13_LiveTranscriptAnalysed ==
  [][(generateAnalysis /\ Len(transcript) > 1) =>
       LET body == analysisTask'.reqs[1].body IN
       /\ body.interview_transcript = transcript
       /\ body.interview_session_id = LiveSessionId]_vars

\* text d occurs in text s
Occurs(d, s) == \E i \in 1..(Len(s) - Len(d) + 1) : SubSeq(s, i, i + Len(d) - 1) = d

\* C14: when a session has ended whose single recording sent every chunk
\* of the script over its open socket, the job description it was started
\* with is part of what the client transmitted for it: the URL of the
\* socket, or one of the messages sent.
C14_ContextTransmitted ==
  (/\ ~isInterviewing
   /\ recNo = 1
   /\ Len(wsSent) = Len(SIMULATED_TRANSCRIPT)
   /\ \A j \in 1..Len(wsSent) : wsSent[j].open) =>
    \/ Occurs(sessionContext, wsUrl)
    \/ \E j \in 1..Len(wsSent) : \E k \in 1..Len(wsSent[j].msgs) :
         Occurs(sessionContext, wsSent[j].msgs[k])

\* the answers a parse request of handleParseResumes can get
ParseAnswers == {OkResponse(<<>>)} \cup ScreeningFailures

\* C17 (as stated): when handleParseResumes ends on a failed request,
\* parsedResumes is what it was when the handler was called, error is set
\* and parsing is false; when it ends without a failure, every file of
\* resumeFiles has an entry in parsedResumes and screeningResults is empty.
C17_AllOrNothing ==
  [][\A resp \in ParseAnswers :
       (/\ parseTask.pc = "await"
        /\ ParseSettle(resp, ParsedOf(parseTask.files[parseTask.i].name))
        /\ parseTask'.pc = "idle") =>
         IF parseResumeFilePost(resp).throws
         THEN /\ parsedResumes' = parseTask.known
              /\ error' # <<>>
              /\ ~parsing'
         ELSE /\ \A k \in 1..Len(resumeFiles') :
                   resumeFiles'[k].name \in DOMAIN parsedResumes'
              /\ screeningResults' = <<>>]_vars

\* C17 (amended): handleParseResumes writes parsedResumes and
\* screeningResults only when it ends without a failure: its click and
\* every answer but the last leave both unchanged; a failed answer leaves
\* both unchanged, sets error and ends parsing; the last answer of a batch
\* without failure gives every file that was in resumeFiles at the click an
\* entry in parsedResumes, empties screeningResults and ends parsing.
C17_BatchAllOrNothing ==
  [][/\ (handleParseResumes /\ parseTask'.pc = "await") =>
          UNCHANGED <<parsedResumes, screeningResults>>
     /\ \A resp \in ParseAnswers :
          (/\ parseTask.pc = "await"
           /\ ParseSettle(resp, ParsedOf(parseTask.files[parseTask.i].name))) =>
            IF parseResumeFilePost(resp).throws
            THEN /\ UNCHANGED <<parsedResumes, screeningResults>>
                 /\ error' # <<>>
                 /\ ~parsing'
                 /\ parseTask'.pc = "idle"
            ELSE IF parseTask'.pc = "await"
            THEN UNCHANGED <<parsedResumes, screeningResults>>
            ELSE /\ \A k \in 1..Len(parseTask.files) :
                      parseTask.files[k].name \in DOMAIN parsedResumes'
                 /\ screeningResults' = <<>>
                 /\ ~parsing']_vars

\* a batch of two files ended on a failed request: error is shown and no
\* file of the batch has an entry
C17_Witness ==
  /\ error = buildErrorMessage(HttpStatusError("500"), "Failed to parse resume")
  /\ ~parsing
  /\ parseTask.pc = "idle"
  /\ Len(resumeFiles) = 2
  /\ parsedResumes = EmptyMap

\* C18: a booking that succeeds sets scheduledInterview to the returned
\* slot, empties schedulingSuggestions, sets emailContent to the returned
\* text and opens the e-mail modal; a booking that fails (no answer, a
\* non-OK status, success false) leaves those four as they are and sets
\* error; a click without a candidate name sets error and sends nothing; no
\* other step opens the modal.
C18_BookingOutcome ==
  [][/\ \A content \in EmailBodies :
          BookSettle(OkResponse(<<>>), "slot1", content) =>
            /\ scheduledInterview' = "slot1"
            /\ schedulingSuggestions' = <<>>
            /\ emailContent' = content
            /\ isEmailModalOpen'
     /\ \A resp \in SchedulingFailures :
          BookSettle(resp, "null", <<>>) =>
            /\ UNCHANGED <<scheduledInterview, schedulingSuggestions,
                           emailContent, isEmailModalOpen>>
            /\ error' # <<>>
     /\ (BookSpecificSlot /\ UNCHANGED bookTasks) =>
          /\ UNCHANGED <<scheduledInterview, schedulingSuggestions,
                         emailContent, isEmailModalOpen>>
          /\ error' # <<>>
     /\ (~isEmailModalOpen /\ isEmailModalOpen') =>
          \E content \in EmailBodies :
            BookSettle(OkResponse(<<>>), "slot1", content)]_vars

\* of two overlapping bookings the first succeeded and the second was
\* refused: the modal is open with the booked slot, and the error is shown
C18_Witness ==
  /\ isEmailModalOpen
  /\ scheduledInterview = "slot1"
  /\ schedulingSuggestions = <<>>
  /\ emailContent = <<"Your", "interview", "is", "booked">>
  /\ error = buildErrorMessage(MkError(<<"slot", "taken">>),
                               "Failed to book interview slot")
  /\ bookTasks = <<>>

\* C19: a send that succeeds shows the success message and schedules the
\* close; the close, 2000 ms later, closes the modal and clears
\* intervieweeEmail and the success message; after a send that fails the
\* modal is open, intervieweeEmail has the value it was sent with, error is
\* set and no close is pending; while a request is in flight emailSending
\* is true and neither modal button can act.
C19_SendOutcome ==
  /\ [](emailTask.pc = "await" =>
          /\ emailSending
          /\ ~ENABLED handleSendEmail
          /\ ~ENABLED CancelEmail)
  /\ [][/\ (emailTask.pc = "await" /\ EmailSettle(OkResponse(<<>>))) =>
             /\ successMessage' =
                  <<"Email sent successfully to ">> \o emailTask.to \o <<"!">>
             /\ closeTimers' = closeTimers + 1
        /\ EmailCloseTimer =>
             /\ ~isEmailModalOpen'
             /\ intervieweeEmail' = <<>>
             /\ successMessage' = <<>>
        /\ \A resp \in EmailFailures :
             (emailTask.pc = "await" /\ EmailSettle(resp)) =>
               /\ isEmailModalOpen'
               /\ intervieweeEmail' = emailTask.to
               /\ error' # <<>>
               /\ closeTimers' = 0]_vars


\* a click on "Send Welcome Email" that sends a request
WelcomeSends == handleSendWelcomeEmail /\ onboardingTask'.pc = "await"

\* C20: a welcome email is sent only for a successfully generated plan.
\* A step sends a request to /api/send-email only when
\* generatedOnboardingPlan is not null and onboardingEmail is not empty, and
\* the request is then built from the plan of the latest generation that
\* returned one; a generation sets the plan to null when it starts, a failed
\* answer leaves it null, and while the plan is null no click sends a
\* welcome email; the plan stops being null only when a generation is
\* answered with a plan.
C20_WelcomeOnlyForGeneratedPlan ==
  /\ [](onboardingTask.kind = "generate" => generatedOnboardingPlan = NullPlan)
  /\ [](generatedOnboardingPlan = NullPlan => ~ENABLED WelcomeSends)
  /\ [](onboardingTask.kind = "welcome" =>
          /\ Len(onboardingTask.reqs) = 1
          /\ onboardingTask.reqs[1].ep = "/api/send-email")
  /\ [][/\ handleGenerateOnboardingPlan => generatedOnboardingPlan' = NullPlan
        /\ \A resp \in EmailFailures :
             GenerateSettle(resp, NullPlan) =>
               generatedOnboardingPlan' = NullPlan
        /\ (generatedOnboardingPlan = NullPlan
              /\ generatedOnboardingPlan' # NullPlan) =>
             \E plan \in Plans : GenerateSettle(OkResponse(<<>>), plan)
        /\ (onboardingTask.kind # "welcome"
              /\ onboardingTask'.kind = "welcome") =>
             /\ generatedOnboardingPlan # NullPlan
             /\ generatedOnboardingPlan = lastPlan
             /\ Truthy(onboardingEmail)
             /\ onboardingTask'.reqs =
                  <<WelcomeRequest(lastPlan, onboardingEmail)>>]_vars

\* a welcome email for the plan without schedule, goals or manager is in
\* flight, the form naming somebody else
C20_Witness ==
  /\ onboardingTask.kind = "welcome"
  /\ onboardingCandidateName = <<"Ann">>
  /\ lastPlan.candidate_name = <<"Bob">>
  /\ onboardingTask.reqs[1].body.to_email = <<"c@x">>
  /\ onboardingTask.reqs[1].body.subject = <<"Welcome ", "Bob", " to the team">>
  /\ onboardingTask.reqs[1].body.body =
       <<"Hello,\n\nPlease join me in welcoming ", "Bob",
         ", who will start on ", "2025-02-03", " as ", "Analyst",
         ".\n\nFirst day schedule:\n", "Please refer to the onboarding plan.",
         "\n\nKey first-week goals:\n", "\n\nBest regards,\n", "Hiring Team">>


\* C21: no loading flag stays set forever. Each of jobLoading, parsing,
\* screeningLoading, schedulingLoading, emailSending and onboardingLoading is
\* true only while an invocation of a handler that sets it is running, and,
\* given that every request settles, a flag that is true becomes false again.
C21_FlagsAreCleared ==
  /\ [](jobLoading => jobTask.pc # "idle")
  /\ [](parsing => parseTask.pc # "idle")
  /\ [](screeningLoading => screenTask.pc # "idle")
  /\ [](schedulingLoading => schedTask.pc # "idle")
  /\ [](emailSending => emailTask.pc # "idle")
  /\ [](onboardingLoading => onboardingTask.pc # "idle")
  /\ jobLoading ~> ~jobLoading
  /\ parsing ~> ~parsing
  /\ screeningLoading ~> ~screeningLoading
  /\ schedulingLoading ~> ~schedulingLoading
  /\ emailSending ~> ~emailSending
  /\ onboardingLoading ~> ~onboardingLoading


\* a screening run parsed a resume, then its last request failed, and both
\* flags of the tab are clear again
C21_Witness ==
  /\ ~screeningLoading
  /\ ~parsing
  /\ screenTask.pc = "idle"
  /\ DOMAIN parsedResumes # {}
  /\ error # <<>>
  /\ error[1] = "Failed to screen applicants"


\* the failures of GuideResponse
GuideFailures == ErrorResponses \cup {NetworkFailure}

\* C22: generateInterviewGuide sends a request to
\* /api/generate-interview-guide only when job description, resume text and
\* candidate name are non-blank after trimming, and otherwise only sets the
\* error, isGenerating staying false; an interviewer name that is blank (empty
\* after trimming) is sent as "Interviewer"; a failed request keeps the guide
\* generated before and sets the error.
C22_GuideRequest ==
  [][/\ \A text \in BriefingJobDescriptions, interviewerName \in InterviewerNames :
          generateInterviewGuide(text, interviewerName) =>
            IF /\ Truthy(Trim(text))
               /\ Truthy(Trim(candidateResume))
               /\ Truthy(Trim(candidateName))
            THEN /\ guideTask'.pc = "await"
                 /\ Len(guideTask'.reqs) = 1
                 /\ guideTask'.reqs[1].ep = "/api/generate-interview-guide"
                 /\ guideTask'.reqs[1].body.interviewer_name =
                      IF Truthy(Trim(interviewerName)) THEN interviewerName
                      ELSE <<"Interviewer">>
            ELSE /\ guideTask' = guideTask
                 /\ guideTask.pc = "idle"
                 /\ ~isGenerating'
                 /\ pibError' # <<>>
                 /\ interviewGuide' = interviewGuide
     /\ \A resp \in GuideFailures :
          GuideSettle(resp, <<>>) =>
            /\ interviewGuide' = interviewGuide
            /\ pibError' # <<>>]_vars


\* the selection newFiles adds nothing: a file of it is no PDF, or every
\* file of it is already listed
AddsNothing(newFiles) ==
  \/ \E k \in 1..Len(newFiles) : ~EndsInDotPdf(newFiles[k].name)
  \/ \A k \in 1..Len(newFiles) :
       \E j \in 1..Len(resumeFiles) : resumeFiles[j].name = newFiles[k].name

\* a step in which handleParseResumes returns without having failed
ParseSucceeds ==
  /\ handleParseResumes \/ ParseResponse
  /\ parseTask'.pc = "idle"
  /\ ~(error' # <<>> /\ error'[1] = "Failed to parse resume")

\* C23: every change to the resume list resets the screening results. A
\* selection that adds a file, handleRemoveResume, handleClearAllResumes and
\* a successful handleParseResumes leave screeningResults empty; a selection
\* that adds nothing leaves resumeFiles and screeningResults unchanged.
C23_ListChangeResetsResults ==
  [][/\ \A newFiles \in Selections :
          handleResumeSelection(newFiles) =>
            IF AddsNothing(newFiles)
            THEN /\ resumeFiles' = resumeFiles
                 /\ screeningResults' = screeningResults
            ELSE /\ Len(resumeFiles') > Len(resumeFiles)
                 /\ screeningResults' = <<>>
     /\ RemoveResume =>
          /\ Len(resumeFiles') < Len(resumeFiles)
          /\ screeningResults' = <<>>
     /\ handleClearAllResumes =>
          /\ resumeFiles' = <<>>
          /\ screeningResults' = <<>>
     /\ ParseSucceeds => screeningResults' = <<>>]_vars

\* results are on display and the banner names a duplicate: the selection
\* that set the banner added nothing and cleared nothing
C23_Witness ==
  /\ screeningResults # <<>>
  /\ ~screeningLoading
  /\ screenTask.pc = "idle"
  /\ Len(resumeFiles) = 1
  /\ error # <<>>
  /\ error[1] = "Duplicate files detected: "


\* C24: parsed data exists only for listed resumes. In every reachable
\* state, also while handleParseResumes or handleScreenApplicants awaits an
\* answer, every key of parsedResumes is the name of a file in resumeFiles.
C24_ParsedOnlyForListed ==
  \A n \in DOMAIN parsedResumes :
    \E k \in 1..Len(resumeFiles) : resumeFiles[k].name = n

====
